---------------------------- MODULE Spec2Model ----------------------------
(***************************************************************************)
(* A model of pywiggum's orchestration core: the kanban board              *)
(* (kanban.py), the file-based control channel (controls.py), the          *)
(* completion log (history.py) and the runner loop (runner.py).            *)
(*                                                                         *)
(* Optional values of the program (None or a value) are sequences of       *)
(* length 0 or 1, so that every comparison is between values of one kind.  *)
(***************************************************************************)
EXTENDS Integers, Sequences, FiniteSets, TLC

VARIABLES
    board_file,     \* the kanban.json file: missing, invalid, or a valid board
    board,          \* KanbanManager.board: None or the board loaded last
    result,         \* the last return value of a direct KanbanManager call
    pc,             \* where the runner process is
    agent_available,\* what check_available() of the configured backend says
    max_file,       \* .wiggum-max: None or its text
    pause_file,     \* .wiggum-pause exists
    state_file,     \* .wiggum-state.json: None or the heartbeat
    max_iterations, \* _run_loop's local budget
    current_iteration,
    current_task_id,
    current_task_start,
    current_task_iterations,
    current_agent_level,
    completions,    \* HistoryTracker.completions
    last_result,    \* the AgentResult of the last invocation (None before it)
    invocations,    \* history: the number of agent invocations started
    paused_invocations, \* history: invocations started since the pause flag was last absent
    left_todo,      \* history: task id -> number of times its persisted status left todo during the run
    last_fault,     \* history: the task and attempt of the last invocation, when it returned a
                    \* non-success result and left the board as it was (else None)
    exit_path,      \* history: how run() ended
    routing,        \* config.routing as Runner.__init__ finds it
    agent,          \* Runner.agent: None, or the configuration the active backend was built from
    hint_file,      \* .wiggum-hint: None or its text
    hints_archive,  \* .wiggum-hints-archive: file name (its timestamp) -> text
    prompt_hint,    \* _run_loop's "hint": what consume_hint returned for the tick's prompt
    in_flight,      \* caller -> the control-channel call it is in the middle of, with its locals
    clock,          \* the wall clock, in seconds
    history_file,   \* .wiggum-history.json: None, or its document
    baseline_eta,   \* HistoryTracker.baseline_eta
    baseline_remaining  \* HistoryTracker.baseline_remaining

vars == <<board_file, board, result, pc, agent_available, max_file, pause_file,
          state_file, max_iterations, current_iteration, current_task_id,
          current_task_start, current_task_iterations, current_agent_level,
          completions, last_result, invocations, paused_invocations,
          left_todo, last_fault, exit_path, routing, prompt_hint, in_flight, agent, hint_file,
          hints_archive, clock, history_file, baseline_eta, baseline_remaining>>

None == <<>>
Some(x) == <<x>>

\* The callers whose control-channel calls are followed statement by
\* statement: the command line, the dashboard, and the loop.
Callers == {"cli", "dashboard", "loop"}

\* A caller in no call.
NoCall == [op |-> "none", step |-> "none"]

-----------------------------------------------------------------------------
(* Bounds of the model.                                                    *)

\* The largest iteration budget the model stores or configures.
MaxBudget == 3

-----------------------------------------------------------------------------
(* kanban.py: the board.                                                   *)

TaskStatus == {"todo", "done", "failed"}

Task(id) == [id |-> id, status |-> "todo", type |-> None, note |-> None]

TypedTask(id, type) == [id |-> id, status |-> "todo", type |-> Some(type), note |-> None]

NotedTask(id, status, note) == [id |-> id, status |-> status, type |-> None, note |-> Some(note)]

Milestone(id, blocked_by, tasks) == [id |-> id, blocked_by |-> blocked_by, tasks |-> tasks]

\* create_template: M1 with two tasks, M2 blocked by M1 with one.
TemplateBoard ==
    << Milestone("M1", {}, <<Task("M1.1"), Task("M1.2")>>),
       Milestone("M2", {"M1"}, <<Task("M2.1")>>) >>

\* A board whose first milestone waits for its last one.
LateBlockerBoard ==
    << Milestone("M1", {"M3"}, <<Task("M1.1")>>),
       Milestone("M2", {}, <<Task("M2.1")>>),
       Milestone("M3", {}, <<Task("M3.1")>>) >>

\* A board with an empty milestone as a blocker, and a blocker that names no
\* milestone of the board.
EdgeBoard ==
    << Milestone("M1", {}, <<>>),
       Milestone("M2", {"M1"}, <<Task("M2.1"), Task("M2.2")>>),
       Milestone("M3", {"M9"}, <<Task("M3.1")>>) >>

Boards == {TemplateBoard, LateBlockerBoard, EdgeBoard}

\* The positions <<milestone index, task index>> of a board's tasks.
TaskPositions(b) == UNION {{<<i, j>> : j \in DOMAIN b[i].tasks} : i \in DOMAIN b}

TaskAt(b, p) == b[p[1]].tasks[p[2]]

TaskIds(b) == {TaskAt(b, p).id : p \in TaskPositions(b)}

\* The order in which "for milestone in milestones: for task in milestone.tasks"
\* visits positions.
Before(p, q) == p[1] < q[1] \/ (p[1] = q[1] /\ p[2] < q[2])

FirstPosition(S) == CHOOSE p \in S : \A q \in S : q = p \/ Before(p, q)

\* The board file's content.
MissingFile == [kind |-> "missing", board |-> <<>>]
InvalidFile == [kind |-> "invalid", board |-> <<>>]
ValidFile(b) == [kind |-> "valid", board |-> b]

LoadRaises_Never(file) == FALSE

\* KanbanManager.load: raises when the file is missing or invalid.
LoadRaises(file) == file.kind # "valid"

IsMilestoneDone_FailedCounts(m) == \A j \in DOMAIN m.tasks : m.tasks[j].status # "todo"

\* KanbanManager._is_milestone_done
IsMilestoneDone(m) ==
    IF m.tasks = <<>> THEN TRUE
    ELSE \A j \in DOMAIN m.tasks : m.tasks[j].status = "done"

\* find_next_task's set of completed milestone ids.
CompletedMilestoneIds(b) == {b[i].id : i \in {k \in DOMAIN b : IsMilestoneDone(b[k])}}

\* "for task in milestone.tasks: if task.status == 'todo': return"
RECURSIVE FirstTodo(_, _)
FirstTodo(tasks, j) ==
    IF j > Len(tasks) THEN None
    ELSE IF tasks[j].status = "todo" THEN Some(tasks[j])
    ELSE FirstTodo(tasks, j + 1)

\* "for milestone in self.board.milestones: ..." from milestone i on.
RECURSIVE ScanMilestones(_, _, _)
ScanMilestones(b, completed, i) ==
    IF i > Len(b) THEN None
    ELSE IF \E blocker \in b[i].blocked_by : blocker \notin completed
         THEN ScanMilestones(b, completed, i + 1)
    ELSE LET t == FirstTodo(b[i].tasks, 1)
         IN  IF t # None THEN <<b[i], t[1]>>
             ELSE ScanMilestones(b, completed, i + 1)

FindNextTask_IgnoresBlockers(b) == ScanMilestones(b, UNION {b[i].blocked_by : i \in DOMAIN b}, 1)

\* KanbanManager.find_next_task: None, or <<milestone, task>>.
FindNextTask(b) == ScanMilestones(b, CompletedMilestoneIds(b), 1)

\* The positions update_task_status and get_task look at for an id.
PositionsOf(b, id) == {p \in TaskPositions(b) : TaskAt(b, p).id = id}

LastPosition(S) == CHOOSE p \in S : \A q \in S : q = p \/ Before(q, p)

GetTask_LastMatch(b, id) ==
    IF PositionsOf(b, id) = {} THEN None
    ELSE Some(TaskAt(b, LastPosition(PositionsOf(b, id))))

\* KanbanManager.get_task: the first task with the id, or None.
GetTask(b, id) ==
    IF PositionsOf(b, id) = {} THEN None
    ELSE Some(TaskAt(b, FirstPosition(PositionsOf(b, id))))

\* A board with the task at position p given a status.
WithStatusAt(b, p, status) ==
    [b EXCEPT ![p[1]].tasks[p[2]].status = status]

\* A board with the task at position p given a note.
WithNoteAt(b, p, note) ==
    [b EXCEPT ![p[1]].tasks[p[2]].note = note]

UpdateTaskStatus_NoteAlways(b, id, status, note) ==
    IF PositionsOf(b, id) = {} THEN b
    ELSE LET p == FirstPosition(PositionsOf(b, id))
         IN  WithNoteAt(WithStatusAt(b, p, status), p, note)

\* KanbanManager.update_task_status: the board after the call (the first task
\* with the id gets the status, and the note when one is given; an unknown id
\* changes nothing).
UpdateTaskStatus(b, id, status, note) ==
    IF PositionsOf(b, id) = {} THEN b
    ELSE LET p == FirstPosition(PositionsOf(b, id))
         IN  IF note # None
             THEN WithNoteAt(WithStatusAt(b, p, status), p, note)
             ELSE WithStatusAt(b, p, status)

\* The boards an invocation can leave behind: each todo task among the
\* positions ps is left todo or resolved (done or failed); the agent is told to
\* resolve tasks, and is modelled as never reopening one.
RECURSIVE Resolutions(_, _)
Resolutions(b, ps) ==
    IF ps = {} THEN {b}
    ELSE LET p == FirstPosition(ps)
             statuses == IF TaskAt(b, p).status = "todo" THEN TaskStatus
                         ELSE {TaskAt(b, p).status}
         IN  UNION {Resolutions(WithStatusAt(b, p, s), ps \ {p}) : s \in statuses}

-----------------------------------------------------------------------------
(* The state after construction.                                           *)

\* KanbanManager.__init__ and the last direct call's result.
KanbanFresh ==
    /\ board = None
    /\ result = [op |-> "none", val |-> None]

\* Runner.__init__'s runtime state, and the history variables.
RunnerFresh ==
    /\ max_iterations = 0
    /\ current_iteration = 0
    /\ current_task_id = None
    /\ current_task_start = None
    /\ current_task_iterations = 0
    /\ current_agent_level = "ralph"
    /\ completions = <<>>
    /\ last_result = None
    /\ invocations = 0
    /\ paused_invocations = 0
    /\ left_todo = [id \in {} |-> 0]
    /\ last_fault = None
    /\ exit_path = "none"

\* config.routing is None, or the configuration class declares no such field.
NoRouting == [kind |-> "none"]
UndeclaredRouting == [kind |-> "undeclared"]

\* The history file: missing, malformed, or a document with the completion
\* log and the baseline (None, or its eta and remaining count).
HistoryMissing == [kind |-> "missing", completions |-> <<>>, baseline |-> None]
HistoryMalformed == [kind |-> "malformed", completions |-> <<>>, baseline |-> None]
HistoryDoc(cs, baseline) == [kind |-> "valid", completions |-> cs, baseline |-> baseline]

\* Malformed documents that are valid JSON: a completion record with a
\* missing or an extra field, a top level that is no object, a baseline whose
\* "eta" is no timestamp.
HistoryBadRecord == [kind |-> "bad_record", completions |-> <<>>, baseline |-> None]
HistoryNotObject == [kind |-> "not_object", completions |-> <<>>, baseline |-> None]
HistoryBadTimestamp == [kind |-> "bad_timestamp", completions |-> <<>>, baseline |-> None]

\* No hint, an empty archive, the clock at its start.
HintsFresh ==
    /\ hint_file = None
    /\ hints_archive = [name \in {} |-> <<>>]
    /\ prompt_hint = None
    /\ in_flight = [caller \in Callers |-> NoCall]
    /\ clock = 0

\* HistoryTracker.__init__, and no backend built yet.
HistoryFresh ==
    /\ baseline_eta = None
    /\ baseline_remaining = 0
    /\ agent = None

runner_vars == <<pc, agent_available, max_file, pause_file, state_file,
                 max_iterations, current_iteration, current_task_id,
                 current_task_start, current_task_iterations,
                 current_agent_level, completions, last_result, invocations,
                 paused_invocations, left_todo, last_fault, exit_path,
                 routing, prompt_hint, in_flight, agent, hint_file, hints_archive, clock,
                 history_file, baseline_eta, baseline_remaining>>

-----------------------------------------------------------------------------
(* SpecKanban: direct calls of a KanbanManager on a board file.            *)

InitKanban ==
    /\ \E b \in Boards : board_file = ValidFile(b)
    /\ KanbanFresh
    /\ RunnerFresh
    /\ pc = "Idle"
    /\ agent_available = TRUE
    /\ max_file = None
    /\ pause_file = FALSE
    /\ state_file = None
    /\ routing = NoRouting
    /\ HintsFresh
    /\ HistoryFresh
    /\ history_file = HistoryMissing

\* "if self.board is None: self.load()"
Loaded == IF board = None THEN board_file.board ELSE board[1]

\* manager.load()
Load ==
    /\ ~LoadRaises(board_file)
    /\ board' = Some(board_file.board)
    /\ result' = [op |-> "load", val |-> None]
    /\ UNCHANGED <<board_file, runner_vars>>

\* manager.find_next_task()
FindNextTaskCall ==
    /\ board' = Some(Loaded)
    /\ result' = [op |-> "find_next_task", val |-> FindNextTask(Loaded)]
    /\ UNCHANGED <<board_file, runner_vars>>

\* manager.update_task_status(id, status, note): the board is saved when the
\* id is found.
UpdateTaskStatusCall(id, status, note) ==
    LET found == PositionsOf(Loaded, id) # {}
        after == UpdateTaskStatus(Loaded, id, status, note)
    IN  /\ board' = Some(after)
        /\ board_file' = IF found THEN ValidFile(after) ELSE board_file
        /\ result' = [op |-> "update_task_status", arg |-> <<id, status, note>>,
                      val |-> found]
        /\ UNCHANGED runner_vars

\* manager.get_task(id)
GetTaskCall(id) ==
    /\ board' = Some(Loaded)
    /\ result' = [op |-> "get_task", arg |-> <<id>>, val |-> GetTask(Loaded, id)]
    /\ UNCHANGED <<board_file, runner_vars>>

UnknownId == "M0.0"

NextKanban ==
    \/ Load
    \/ FindNextTaskCall
    \/ \E id \in TaskIds(Loaded) \cup {UnknownId}, status \in TaskStatus :
          UpdateTaskStatusCall(id, status, None)

SpecKanban == InitKanban /\ [][NextKanban]_vars

-----------------------------------------------------------------------------
(* SpecBoard: direct calls of a KanbanManager on boards with notes and with *)
(* repeated task identifiers, while the agent edits the board file.        *)

\* A board whose first task carries a note.
NotedBoard ==
    << Milestone("M1", {}, <<NotedTask("M1.1", "failed", "old"), Task("M1.2")>>) >>

\* A board on which one identifier names three tasks, in two milestones.
DuplicateBoard ==
    << Milestone("M1", {}, <<Task("M1.1"), Task("M1.1")>>),
       Milestone("M2", {}, <<Task("M1.1")>>) >>

\* The notes the callers pass: none, an empty one, a reason.
Notes == {None, Some(""), Some("why")}

InitBoard ==
    /\ board_file \in {ValidFile(NotedBoard), ValidFile(DuplicateBoard)}
    /\ KanbanFresh
    /\ RunnerFresh
    /\ pc = "Idle"
    /\ agent_available = TRUE
    /\ max_file = None
    /\ pause_file = FALSE
    /\ state_file = None
    /\ routing = NoRouting
    /\ HintsFresh
    /\ HistoryFresh
    /\ history_file = HistoryMissing

\* The agent resolves a todo task in the board file; the manager's board in
\* memory is not told.
AgentEditsFile ==
    /\ \E p \in TaskPositions(board_file.board), status \in {"done", "failed"} :
          /\ TaskAt(board_file.board, p).status = "todo"
          /\ board_file' = ValidFile(WithStatusAt(board_file.board, p, status))
    /\ result' = [op |-> "none", val |-> None]
    /\ UNCHANGED <<board, runner_vars>>

NextBoard ==
    \/ Load
    \/ \E id \in TaskIds(Loaded) \cup {UnknownId} : GetTaskCall(id)
    \/ \E id \in TaskIds(Loaded) \cup {UnknownId}, status \in TaskStatus, note \in Notes :
          UpdateTaskStatusCall(id, status, note)
    \/ AgentEditsFile

SpecBoard == InitBoard /\ [][NextBoard]_vars

-----------------------------------------------------------------------------
(* Claims about update_task_status and get_task.                           *)

\* The step is a call update_task_status(id, status, note).
UpdateReturns == result'.op = "update_task_status"

\* C21: update_task_status(id, status, note) on an id of the board sets that
\* task's status, and its note only when a note is given (the old note is
\* kept otherwise), leaves every other task, the milestone order and the
\* blockers unchanged, saves the board so that the file equals the board in
\* memory, and returns true, after which get_task(id) reports the new status;
\* on an unknown id it returns false and changes neither the board in memory
\* nor the file.
C21_UpdateTaskStatusFrame ==
    [][UpdateReturns =>
        LET id == result'.arg[1]
            status == result'.arg[2]
            note == result'.arg[3]
            b == Loaded
            after == board'[1]
        IN  IF id \in TaskIds(b)
            THEN /\ result'.val = TRUE
                 /\ \E p \in PositionsOf(b, id) :
                       /\ TaskAt(after, p).status = status
                       /\ TaskAt(after, p).note
                            = (IF note # None THEN note ELSE TaskAt(b, p).note)
                       /\ TaskAt(after, p).id = id
                       /\ TaskAt(after, p).type = TaskAt(b, p).type
                       /\ \A q \in TaskPositions(b) \ {p} : TaskAt(after, q) = TaskAt(b, q)
                 /\ Len(after) = Len(b)
                 /\ \A i \in DOMAIN b :
                       /\ after[i].id = b[i].id
                       /\ after[i].blocked_by = b[i].blocked_by
                       /\ Len(after[i].tasks) = Len(b[i].tasks)
                 /\ board_file' = ValidFile(after)
                 /\ GetTask(after, id)[1].status = status
            ELSE /\ result'.val = FALSE
                 /\ after = b
                 /\ board_file' = board_file]_vars

\* C21's case: a call without a note has given a new status to a task that
\* carried a note, next to a task left as it was, and the file holds the
\* board in memory.
C21_Witness ==
    /\ result.op = "update_task_status"
    /\ result.arg = <<"M1.1", "done", None>>
    /\ result.val = TRUE
    /\ board[1][1].tasks[1].note = Some("old")
    /\ board[1][1].tasks[1].status = "done"
    /\ board[1][1].tasks[2].status = "todo"
    /\ board_file = ValidFile(board[1])

\* The positions of the tasks with an id that differ between two boards.
ChangedPositions(b, after, id) ==
    {p \in PositionsOf(b, id) : TaskAt(after, p) # TaskAt(b, p)}

\* C22 as stated: when tasks share an identifier, get_task(id) returns, and
\* update_task_status(id, ...) changes, the last task with that identifier in
\* board order.
C22_LastMatchShadows ==
    /\ [](result.op = "get_task" /\ result.val # None =>
            result.val[1] = TaskAt(board[1], LastPosition(PositionsOf(board[1], result.arg[1]))))
    /\ [][(UpdateReturns /\ result'.val = TRUE) =>
            ChangedPositions(Loaded, board'[1], result'.arg[1])
                \subseteq {LastPosition(PositionsOf(Loaded, result'.arg[1]))}]_vars

\* C22: a board on which tasks share an identifier is accepted by load, and
\* get_task(id) returns, and update_task_status(id, ...) changes, the first
\* task with that identifier in board order; the later ones are never
\* returned and never changed.
C22_FirstMatchShadows ==
    /\ [](result.op = "get_task" /\ result.val # None =>
            result.val[1] = TaskAt(board[1], FirstPosition(PositionsOf(board[1], result.arg[1]))))
    /\ [](result.op = "get_task" =>
            (result.val = None <=> PositionsOf(board[1], result.arg[1]) = {}))
    /\ [][(UpdateReturns /\ result'.val = TRUE) =>
            /\ ChangedPositions(Loaded, board'[1], result'.arg[1])
                  \subseteq {FirstPosition(PositionsOf(Loaded, result'.arg[1]))}
            /\ result'.arg[3] # None =>
                  TaskAt(board'[1], FirstPosition(PositionsOf(Loaded, result'.arg[1])))
                    = [TaskAt(Loaded, FirstPosition(PositionsOf(Loaded, result'.arg[1])))
                         EXCEPT !.status = result'.arg[2], !.note = result'.arg[3]]]_vars

\* C22's case: on the board with three tasks of one identifier, loaded from
\* its file, an update has changed the first of them and left the others,
\* and get_task returns the first.
C22_Witness ==
    /\ result.op = "get_task"
    /\ result.arg = <<"M1.1">>
    /\ Cardinality(PositionsOf(board[1], "M1.1")) = 3
    /\ result.val = Some(board[1][1].tasks[1])
    /\ board[1][1].tasks[1].status = "done"
    /\ board[1][1].tasks[2].status = "todo"
    /\ board[1][2].tasks[1].status = "todo"

-----------------------------------------------------------------------------
(* Claims about find_next_task.                                            *)

\* A blocker is done: it names a milestone of the board all of whose tasks are
\* done (none of them, when the milestone has no task).
BlockerDone(b, blocker) ==
    \E k \in DOMAIN b :
        /\ b[k].id = blocker
        /\ \A j \in DOMAIN b[k].tasks : b[k].tasks[j].status = "done"

BlockersAllDone(b, i) == \A blocker \in b[i].blocked_by : BlockerDone(b, blocker)

\* The todo tasks of milestones whose blockers are all done.
Selectable(b) ==
    {p \in TaskPositions(b) : BlockersAllDone(b, p[1]) /\ TaskAt(b, p).status = "todo"}

\* C1: find_next_task returns the first todo task, in declaration order, of a
\* milestone whose blockers are all done (the first such milestone that has a
\* todo task, and its first todo task); it returns None iff there is none.
C1_FindNextTaskFirstSelectable ==
    result.op = "find_next_task" =>
        LET b == board[1]
        IN  IF Selectable(b) = {} THEN result.val = None
            ELSE /\ result.val # None
                 /\ \E p \in Selectable(b) :
                        /\ \A q \in Selectable(b) : q = p \/ Before(p, q)
                        /\ result.val = <<b[p[1]], TaskAt(b, p)>>

\* C1's case: the first milestone of the board holds a todo task and is
\* skipped as blocked; a later milestone's task is returned.
C1_Witness ==
    /\ result.op = "find_next_task"
    /\ result.val # None
    /\ result.val[1].id # board[1][1].id
    /\ \E j \in DOMAIN board[1][1].tasks : board[1][1].tasks[j].status = "todo"

\* The index of the milestone with an id.
IndexOf(b, id) == CHOOSE k \in DOMAIN b : b[k].id = id

\* C2: after any sequence of update_task_status calls, find_next_task returns
\* no task of a milestone one of whose blockers is not done (done: every task
\* of the blocker is done, so an empty blocker is done); and a milestone all of
\* whose blockers are done, with a todo task, is selectable: a task is
\* returned, of that milestone or an earlier one, and when of that milestone,
\* its first todo task.
C2_BlockedMilestoneNeverSelected ==
    result.op = "find_next_task" =>
        LET b == board[1]
        IN  /\ result.val # None =>
                   \A blocker \in result.val[1].blocked_by : BlockerDone(b, blocker)
            /\ \A i \in DOMAIN b :
                   (/\ BlockersAllDone(b, i)
                    /\ \E j \in DOMAIN b[i].tasks : b[i].tasks[j].status = "todo")
                   => /\ result.val # None
                      /\ IndexOf(b, result.val[1].id) <= i
                      /\ IndexOf(b, result.val[1].id) = i =>
                            /\ result.val[2].status = "todo"
                            /\ \E j \in DOMAIN b[i].tasks :
                                   /\ b[i].tasks[j] = result.val[2]
                                   /\ \A j2 \in 1..(j - 1) : b[i].tasks[j2].status # "todo"

\* C2's case: update_task_status calls have made every task of a non-empty
\* blocker done, and the dependent milestone's task is returned.
C2_Witness ==
    /\ result.op = "find_next_task"
    /\ result.val # None
    /\ result.val[1].blocked_by # {}
    /\ \E blocker \in result.val[1].blocked_by :
          board[1][IndexOf(board[1], blocker)].tasks # <<>>

-----------------------------------------------------------------------------
(* controls.py: the control files, and the external actors (the command    *)
(* line and the dashboard) that write them at any time.                    *)

\* config.runner.max_iterations of the modelled configuration.
ConfigMaxIterations == 2

\* Texts are sequences of characters.
Whitespace == {" "}

RECURSIVE LStrip(_)
LStrip(text) ==
    IF text # <<>> /\ Head(text) \in Whitespace THEN LStrip(Tail(text)) ELSE text

RECURSIVE RStrip(_)
RStrip(text) ==
    IF text # <<>> /\ text[Len(text)] \in Whitespace
    THEN RStrip(SubSeq(text, 1, Len(text) - 1))
    ELSE text

\* str.strip()
Strip(text) == RStrip(LStrip(text))

DigitChars == <<"0", "1", "2", "3", "4", "5", "6", "7", "8", "9">>

RECURSIVE Digits(_)
Digits(n) ==
    IF n < 10 THEN <<DigitChars[n + 1]>>
    ELSE Digits(n \div 10) \o <<DigitChars[(n % 10) + 1]>>

\* str(n) of an int
Str(n) == IF n < 0 THEN <<"-">> \o Digits(0 - n) ELSE Digits(n)

IsDigit(c) == \E d \in 1..10 : DigitChars[d] = c

DigitValue(c) == (CHOOSE d \in 1..10 : DigitChars[d] = c) - 1

RECURSIVE DigitsValue(_)
DigitsValue(text) ==
    IF Len(text) = 1 THEN DigitValue(text[1])
    ELSE 10 * DigitsValue(SubSeq(text, 1, Len(text) - 1)) + DigitValue(text[Len(text)])

\* int(text): None stands for the ValueError.
ParseInt(text) ==
    LET t == Strip(text)
        signed == t # <<>> /\ t[1] \in {"-", "+"}
        digits == IF signed THEN Tail(t) ELSE t
    IN  IF digits = <<>> \/ \E i \in 1..Len(digits) : ~IsDigit(digits[i])
        THEN None
        ELSE Some(IF signed /\ t[1] = "-" THEN 0 - DigitsValue(digits)
                  ELSE DigitsValue(digits))

\* Controls.get_max_iterations: None when the file is absent or not a number.
GetMaxIterations == IF max_file = None THEN None ELSE ParseInt(max_file[1])

RunnerPid == "runner"
StalePid == "crashed"

\* The identifier of a running process that the caller may not signal.
ForeignPid == "foreign"

\* Controls.write_state's document (the timestamp left out).
Heartbeat(pid, iteration, task_id) ==
    [pid |-> pid, iteration |-> iteration, task_id |-> task_id]

\* "os.kill(pid, 0)": it returns for a running process the caller may signal
\* (the runner until its process has ended), and raises PermissionError for
\* one it may not signal and ProcessLookupError when there is none.
Kill0(pid) ==
    IF pid = RunnerPid
    THEN (IF pc # "Ended" THEN "returns" ELSE "ProcessLookupError")
    ELSE IF pid = ForeignPid THEN "PermissionError"
    ELSE "ProcessLookupError"

\* Controls.read_state
ReadState == state_file

\* Controls.is_runner_alive
IsRunnerAlive ==
    IF ReadState = None THEN FALSE
    ELSE Kill0(ReadState[1].pid) = "returns"

IsPaused_Never == FALSE

\* Controls.is_paused
IsPaused == pause_file

\* Controls.pause
Pause ==
    /\ pause_file' = TRUE
    /\ UNCHANGED <<board_file, board, result, pc, agent_available, max_file,
                   state_file, max_iterations, current_iteration,
                   current_task_id, current_task_start, current_task_iterations,
                   current_agent_level, completions, last_result, invocations,
                   paused_invocations, left_todo, last_fault, exit_path>>
    /\ UNCHANGED <<routing, prompt_hint, in_flight, agent, hint_file, hints_archive, clock, history_file,
                   baseline_eta, baseline_remaining>>

\* Controls.resume
Resume ==
    /\ pause_file
    /\ pause_file' = FALSE
    /\ paused_invocations' = 0
    /\ UNCHANGED <<board_file, board, result, pc, agent_available, max_file,
                   state_file, max_iterations, current_iteration,
                   current_task_id, current_task_start, current_task_iterations,
                   current_agent_level, completions, last_result, invocations,
                   left_todo, last_fault, exit_path>>
    /\ UNCHANGED <<routing, prompt_hint, in_flight, agent, hint_file, hints_archive, clock, history_file,
                   baseline_eta, baseline_remaining>>

\* Controls.set_max_iterations
SetMaxIterations(n) ==
    /\ max_file' = Some(Str(n))
    /\ UNCHANGED <<board_file, board, result, pc, agent_available, pause_file,
                   state_file, max_iterations, current_iteration,
                   current_task_id, current_task_start, current_task_iterations,
                   current_agent_level, completions, last_result, invocations,
                   paused_invocations, left_todo, last_fault, exit_path>>
    /\ UNCHANGED <<routing, prompt_hint, in_flight, agent, hint_file, hints_archive, clock, history_file,
                   baseline_eta, baseline_remaining>>

\* Controls.add_iterations: an unset budget counts as 0.
AddIterations(additional) ==
    LET current == IF GetMaxIterations = None THEN 0 ELSE GetMaxIterations[1]
    IN  /\ current + additional <= MaxBudget
        /\ SetMaxIterations(current + additional)

\* datetime.now(), in seconds: an agent invocation takes one, and the direct
\* calls let seconds pass between them.
Now == clock

\* Controls.get_hint
GetHint == IF hint_file = None THEN None ELSE Some(Strip(hint_file[1]))

\* The archive after write_text to "hint-<timestamp>.txt": a file of that
\* name is overwritten.
ArchiveWrite(archive, timestamp, text) ==
    [name \in DOMAIN archive \cup {timestamp} |->
        IF name = timestamp THEN text ELSE archive[name]]

ConsumeHint_KeepsFile ==
    IF GetHint = None
    THEN UNCHANGED <<hint_file, hints_archive>>
    ELSE /\ hints_archive' = ArchiveWrite(hints_archive, Now, GetHint[1])
         /\ hint_file' = hint_file

\* Controls.consume_hint's effect on the live file and the archive.
ConsumeHint ==
    IF GetHint = None
    THEN UNCHANGED <<hint_file, hints_archive>>
    ELSE /\ hints_archive' = ArchiveWrite(hints_archive, Now, GetHint[1])
         /\ hint_file' = None

-----------------------------------------------------------------------------
(* SpecControls: direct calls of a Controls object, as the command line    *)
(* and the dashboard make them, with no runner started.                    *)

\* The largest budget and the last second of the direct calls.
MaxStored == 50
MaxClock == 1

\* The hints the callers set.
HintTexts == { <<" ", "a">>, <<"b">> }

\* The deltas the callers add.
Deltas == {0 - 1, 25}

Returned(op, arg, val) == [op |-> op, arg |-> arg, val |-> val]

not_controls == <<board_file, board, pc, agent_available, state_file,
                  max_iterations, current_iteration, current_task_id,
                  current_task_start, current_task_iterations,
                  current_agent_level, completions, last_result, invocations,
                  paused_invocations, left_todo, last_fault, exit_path,
                  routing, prompt_hint, in_flight, agent, history_file, baseline_eta,
                  baseline_remaining>>

\* controls.is_paused()
IsPausedCall ==
    /\ result' = Returned("is_paused", None, Some(IsPaused))
    /\ UNCHANGED <<not_controls, max_file, pause_file, hint_file, hints_archive, clock>>

\* controls.pause(): touch.
PauseCall ==
    /\ pause_file' = TRUE
    /\ result' = Returned("pause", None, None)
    /\ UNCHANGED <<not_controls, max_file, hint_file, hints_archive, clock>>

ResumeCall_Unchecked ==
    /\ pause_file' = FALSE
    /\ result' = Returned("resume", None,
                          IF pause_file THEN None ELSE Some("FileNotFoundError"))
    /\ UNCHANGED <<not_controls, max_file, hint_file, hints_archive, clock>>

\* controls.resume(): unlink, when the file exists.
ResumeCall ==
    /\ pause_file' = (IF pause_file THEN FALSE ELSE pause_file)
    /\ result' = Returned("resume", None, None)
    /\ UNCHANGED <<not_controls, max_file, hint_file, hints_archive, clock>>

\* controls.get_max_iterations()
GetMaxIterationsCall ==
    /\ result' = Returned("get_max_iterations", None, GetMaxIterations)
    /\ UNCHANGED <<not_controls, max_file, pause_file, hint_file, hints_archive, clock>>

\* controls.set_max_iterations(n)
SetMaxIterationsCall(n) ==
    /\ max_file' = Some(Str(n))
    /\ result' = Returned("set_max_iterations", Some(n), None)
    /\ UNCHANGED <<not_controls, pause_file, hint_file, hints_archive, clock>>

AddIterationsCall_Overwrites(additional) ==
    /\ additional <= MaxStored
    /\ max_file' = Some(Str(additional))
    /\ result' = Returned("add_iterations", Some(additional), Some(additional))
    /\ UNCHANGED <<not_controls, pause_file, hint_file, hints_archive, clock>>

\* controls.add_iterations(additional)
AddIterationsCall(additional) ==
    LET current == IF GetMaxIterations = None THEN 0 ELSE GetMaxIterations[1]
        new_max == current + additional
    IN  /\ new_max \in (0 - 1)..MaxStored
        /\ max_file' = Some(Str(new_max))
        /\ result' = Returned("add_iterations", Some(additional), Some(new_max))
        /\ UNCHANGED <<not_controls, pause_file, hint_file, hints_archive, clock>>

\* controls.get_hint()
GetHintCall ==
    /\ result' = Returned("get_hint", None, GetHint)
    /\ UNCHANGED <<not_controls, max_file, pause_file, hint_file, hints_archive, clock>>

\* controls.set_hint(hint)
SetHintCall(hint) ==
    /\ hint_file' = Some(hint)
    /\ result' = Returned("set_hint", Some(hint), None)
    /\ UNCHANGED <<not_controls, max_file, pause_file, hints_archive, clock>>

\* controls.consume_hint()
ConsumeHintCall ==
    /\ ConsumeHint
    /\ result' = Returned("consume_hint", None, GetHint)
    /\ UNCHANGED <<not_controls, max_file, pause_file, clock>>

\* A second passes.
SecondPasses ==
    /\ clock < MaxClock
    /\ clock' = clock + 1
    /\ UNCHANGED <<not_controls, result, max_file, pause_file, hint_file, hints_archive>>

InitControls ==
    /\ board_file = ValidFile(TemplateBoard)
    /\ KanbanFresh
    /\ RunnerFresh
    /\ pc = "Idle"
    /\ agent_available = TRUE
    /\ max_file = None
    /\ pause_file = FALSE
    /\ state_file = None
    /\ routing = NoRouting
    /\ HintsFresh
    /\ HistoryFresh
    /\ history_file = HistoryMissing

NextControls ==
    \/ IsPausedCall
    \/ PauseCall
    \/ ResumeCall
    \/ GetMaxIterationsCall
    \/ SetMaxIterationsCall(7)
    \/ \E additional \in Deltas : AddIterationsCall(additional)
    \/ GetHintCall
    \/ \E hint \in HintTexts : SetHintCall(hint)
    \/ ConsumeHintCall
    \/ SecondPasses

SpecControls == InitControls /\ [][NextControls]_vars

-----------------------------------------------------------------------------
(* Claims about the control channel.                                       *)

ArchivedFiles == Cardinality(DOMAIN hints_archive)

\* A step in which consume_hint returns. (A second that passes leaves the
\* last return value in place, and moves the clock.)
ConsumeReturns == result'.op = "consume_hint" /\ clock' = clock

\* C11: consume_hint is consume-once. A consume_hint that finds a hint returns
\* it (as get_hint reads it), leaves no live hint, so that get_hint and a
\* second consume_hint return none, and adds exactly one file to the archive;
\* a consume_hint that returns none, and every other call, adds none. So the
\* number of archived files is the number of consume_hint calls that returned
\* a hint.
C11_ConsumeOnceArchivesOnce ==
    /\ [][ConsumeReturns =>
            /\ result'.val = GetHint
            /\ GetHint' = None
            /\ ArchivedFiles' = ArchivedFiles + (IF result'.val # None THEN 1 ELSE 0)]_vars
    /\ [][~ConsumeReturns => ArchivedFiles' = ArchivedFiles]_vars

\* C12: add_iterations(delta) stores and returns the current budget (0 when
\* unset) plus delta, and get_max_iterations returns what set_max_iterations
\* or add_iterations stored last; so a budget set to n and added to is n plus
\* the sum of the deltas, and 25 added twice to an unset budget gives 50.
C12_AddIterationsSums ==
    /\ [][result'.op = "add_iterations" /\ result' # result =>
            /\ result'.val = Some((IF GetMaxIterations = None THEN 0
                                   ELSE GetMaxIterations[1]) + result'.arg[1])
            /\ GetMaxIterations' = result'.val]_vars
    /\ [](result.op = "add_iterations" => GetMaxIterations = result.val)
    /\ [](result.op = "set_max_iterations" => GetMaxIterations = result.arg)

\* C12's case: 25 has been added to a budget of 25, which gives 50.
C12_Witness ==
    /\ result.op = "add_iterations"
    /\ result.arg = Some(25)
    /\ result.val = Some(50)
    /\ max_file = Some(<<"5", "0">>)

\* C13: the pause flag is the presence of the file. After pause the channel
\* is paused and after resume it is not, whatever it was before, and neither
\* call fails; no other call changes the flag; pause on a paused channel and
\* resume on a channel that is not paused change nothing.
C13_PauseResumeIdempotent ==
    /\ [](result.op = "pause" => IsPaused /\ result.val = None)
    /\ [](result.op = "resume" => ~IsPaused /\ result.val = None)
    /\ [][result'.op \notin {"pause", "resume"} => IsPaused' = IsPaused]_vars
    /\ [][(result'.op = "pause" /\ IsPaused) \/ (result'.op = "resume" /\ ~IsPaused) =>
            UNCHANGED <<pause_file, max_file, hint_file, hints_archive>>]_vars

\* C13's case: resume has returned, with a hint and a budget in the channel.
C13_Witness ==
    /\ result.op = "resume"
    /\ ~IsPaused
    /\ hint_file # None
    /\ max_file # None

-----------------------------------------------------------------------------
(* routing.py: the router.                                                 *)

AgentLevel == {"ralph", "eddie", "lou", "matt"}

\* A dict of an agent configuration: the keys the runner reads.
AgentConfig(backend, model) == [backend |-> backend, model |-> model]

\* "{}", what agents.get(level, {}) gives for a level without an entry.
EmptyAgentConfig == AgentConfig(None, None)

\* RoutingConfig.agents' default.
DefaultAgents ==
    [level \in AgentLevel |->
        CASE level = "ralph" -> AgentConfig(Some("opencode"), Some("vllm/qwen3-coder-next"))
          [] level = "eddie" -> AgentConfig(Some("opencode"), Some("vllm/qwen3-32b-instruct"))
          [] level = "lou" -> AgentConfig(Some("claude_code"), Some("claude-sonnet-4-5"))
          [] level = "matt" -> AgentConfig(Some("human"), None)]

\* An agents dict that configures the two local levels only.
LocalAgents == [level \in {"ralph", "eddie"} |-> DefaultAgents[level]]

RoutingRule(task_type, milestone_id, task_id_pattern, agent_level, model) ==
    [task_type |-> task_type, milestone_id |-> milestone_id,
     task_id_pattern |-> task_id_pattern, agent_level |-> agent_level,
     model |-> model]

EscalationConfig(enabled, trigger_after_iterations, trigger_after_duration, escalation_chain) ==
    [enabled |-> enabled, trigger_after_iterations |-> trigger_after_iterations,
     trigger_after_duration |-> trigger_after_duration,
     escalation_chain |-> escalation_chain]

\* EscalationConfig.escalation_chain's default.
DefaultChain == <<"ralph", "eddie", "lou", "matt">>

RoutingConfig(agents, rules, default_agent, escalation) ==
    [kind |-> "config", agents |-> agents, rules |-> rules,
     default_agent |-> default_agent, escalation |-> escalation]

\* The characters of the task identifiers.
IdText ==
    [id \in {"M0.0", "M1.1", "M1.2", "M2.1", "M2.2", "M3.1"} |->
        CASE id = "M0.0" -> <<"M", "0", ".", "0">>
          [] id = "M1.1" -> <<"M", "1", ".", "1">>
          [] id = "M1.2" -> <<"M", "1", ".", "2">>
          [] id = "M2.1" -> <<"M", "2", ".", "1">>
          [] id = "M2.2" -> <<"M", "2", ".", "2">>
          [] id = "M3.1" -> <<"M", "3", ".", "1">>]

CharMatches(p, c) == p = "." \/ p = c

\* re.match(pattern, text) for patterns of literal characters, "." and a
\* starred character: a match at the start of the text, not of the whole text.
RECURSIVE ReMatch(_, _)
ReMatch(pattern, text) ==
    IF pattern = <<>> THEN TRUE
    ELSE IF Len(pattern) >= 2 /\ pattern[2] = "*"
         THEN \E k \in 0..Len(text) :
                 /\ \A i \in 1..k : CharMatches(pattern[1], text[i])
                 /\ ReMatch(SubSeq(pattern, 3, Len(pattern)),
                            SubSeq(text, k + 1, Len(text)))
    ELSE /\ text # <<>>
         /\ CharMatches(pattern[1], text[1])
         /\ ReMatch(Tail(pattern), Tail(text))

\* The truth value of an optional string: None and "" are false.
Truthy(opt) == opt # None /\ opt[1] # ""

\* The same for a string the model keeps as a text.
TruthyText(opt) == opt # None /\ opt[1] # <<>>

MatchesRule_AnyFilter(rule, task_id, task_type, milestone_id) ==
    \/ (Truthy(rule.task_type) /\ rule.task_type = task_type)
    \/ (Truthy(rule.milestone_id) /\ rule.milestone_id = milestone_id)
    \/ (TruthyText(rule.task_id_pattern) /\ ReMatch(rule.task_id_pattern[1], IdText[task_id]))
    \/ (~Truthy(rule.task_type) /\ ~Truthy(rule.milestone_id)
            /\ ~TruthyText(rule.task_id_pattern))

\* Router._matches_rule
MatchesRule(rule, task_id, task_type, milestone_id) ==
    IF Truthy(rule.task_type) /\ rule.task_type # task_type THEN FALSE
    ELSE IF Truthy(rule.milestone_id) /\ rule.milestone_id # milestone_id THEN FALSE
    ELSE IF TruthyText(rule.task_id_pattern)
            /\ ~ReMatch(rule.task_id_pattern[1], IdText[task_id]) THEN FALSE
    ELSE TRUE

\* agents.get(level, {})
AgentsGet(config, level) ==
    IF level \in DOMAIN config.agents THEN config.agents[level] ELSE EmptyAgentConfig

DefaultRoute_IgnoresCurrent(config, current_level) ==
    <<config.default_agent, AgentsGet(config, config.default_agent)>>

\* "level = current_level or self.config.default_agent" and its agent.
DefaultRoute(config, current_level) ==
    LET level == IF current_level # None THEN current_level[1]
                 ELSE config.default_agent
    IN  <<level, AgentsGet(config, level)>>

\* "for rule in self.config.rules: if matches: return" from rule i on, then
\* the default.
RECURSIVE RouteFrom(_, _, _, _, _, _)
RouteFrom(config, i, task_id, task_type, milestone_id, current_level) ==
    IF i > Len(config.rules)
    THEN DefaultRoute(config, current_level)
    ELSE IF MatchesRule(config.rules[i], task_id, task_type, milestone_id)
         THEN LET rule == config.rules[i]
                  agent_config == AgentsGet(config, rule.agent_level)
              IN  <<rule.agent_level,
                    IF Truthy(rule.model)
                    THEN [agent_config EXCEPT !.model = rule.model]
                    ELSE agent_config>>
    ELSE RouteFrom(config, i + 1, task_id, task_type, milestone_id, current_level)

RouteTask_IgnoresRules(config, task_id, task_type, milestone_id, current_level) ==
    DefaultRoute(config, current_level)

\* Router.route_task
RouteTask(config, task_id, task_type, milestone_id, current_level) ==
    RouteFrom(config, 1, task_id, task_type, milestone_id, current_level)

\* list.index: the first position of the level in the chain (0 when absent,
\* the ValueError).
ChainIndex(chain, level) ==
    IF \E i \in DOMAIN chain : chain[i] = level
    THEN CHOOSE i \in DOMAIN chain :
            chain[i] = level /\ \A k \in 1..(i - 1) : chain[k] # level
    ELSE 0

Escalate_StopsEarly(config, current_level) ==
    IF ~config.escalation.enabled THEN None
    ELSE LET chain == config.escalation.escalation_chain
             current_idx == ChainIndex(chain, current_level)
         IN  IF current_idx # 0 /\ current_idx + 1 < Len(chain)
             THEN Some(chain[current_idx + 1])
             ELSE None

\* Router.escalate
Escalate(config, current_level) ==
    IF ~config.escalation.enabled THEN None
    ELSE LET chain == config.escalation.escalation_chain
             current_idx == ChainIndex(chain, current_level)
         IN  IF current_idx # 0 /\ current_idx + 1 <= Len(chain)
             THEN Some(chain[current_idx + 1])
             ELSE None

ShouldEscalate_Exclusive(config, iterations_on_task, duration_halves) ==
    /\ config.escalation.enabled
    /\ \/ iterations_on_task >= config.escalation.trigger_after_iterations
       \/ duration_halves > 2 * config.escalation.trigger_after_duration

\* Router.should_escalate. Durations are counted in half seconds, so that
\* a duration between two whole seconds can be told from both.
ShouldEscalate(config, iterations_on_task, duration_halves) ==
    IF ~config.escalation.enabled THEN FALSE
    ELSE IF iterations_on_task >= config.escalation.trigger_after_iterations THEN TRUE
    ELSE IF duration_halves >= 2 * config.escalation.trigger_after_duration THEN TRUE
    ELSE FALSE

-----------------------------------------------------------------------------
(* SpecRouter: direct calls of a Router built on a routing configuration.   *)

\* The longest list of rules.
MaxRules == 2

\* A rule on the task type, one on the milestone with a model of its own, one
\* on the identifier ("M1.*"), and one with two filters and an empty pattern.
Rules ==
    { RoutingRule(Some("code"), None, None, "lou", None),
      RoutingRule(None, Some("M1"), None, "eddie", Some("vllm/big")),
      RoutingRule(None, None, Some(<<"M", "1", ".", "*">>), "matt", None),
      RoutingRule(Some("test"), Some("M2"), Some(<<>>), "ralph", None) }

RuleLists == UNION {[1..n -> Rules] : n \in 0..MaxRules}

\* Chains: the default, one that starts above ralph, one that repeats a level.
Chains == { DefaultChain, <<"eddie", "lou">>, <<"ralph", "eddie", "ralph">> }

EscalationConfigs ==
    { EscalationConfig(enabled, t[1], t[2], chain) :
        enabled \in BOOLEAN, t \in {<<1, 2>>, <<2, 1>>}, chain \in Chains }

\* EscalationConfig's defaults.
DefaultEscalation == EscalationConfig(FALSE, 3, 1800, DefaultChain)

RouterConfigs ==
    { RoutingConfig(agents, rules, default_agent, DefaultEscalation) :
        agents \in {DefaultAgents, LocalAgents}, rules \in RuleLists,
        default_agent \in {"ralph", "lou"} }
    \cup { RoutingConfig(DefaultAgents, <<>>, "ralph", escalation) :
              escalation \in EscalationConfigs }

not_router == <<board_file, board, pc, agent_available, max_file, pause_file,
                state_file, max_iterations, current_iteration, current_task_id,
                current_task_start, current_task_iterations,
                current_agent_level, completions, last_result, invocations,
                paused_invocations, left_todo, last_fault, exit_path,
                routing, prompt_hint, in_flight, agent, hint_file, hints_archive, clock, history_file,
                baseline_eta, baseline_remaining>>

\* router.route_task(task_id, task_type, milestone_id, current_level)
RouteTaskCall ==
    /\ \E task_id \in {"M1.1", "M2.1"},
          task_type \in {None, Some("code"), Some("test")},
          milestone_id \in {None, Some("M1"), Some("M2")},
          current_level \in {None} \cup {Some(level) : level \in AgentLevel} :
            result' = Returned("route_task",
                               <<task_id, task_type, milestone_id, current_level>>,
                               RouteTask(routing, task_id, task_type, milestone_id,
                                         current_level))
    /\ UNCHANGED not_router

\* router.escalate(current_level)
EscalateCall ==
    /\ \E current_level \in AgentLevel :
            result' = Returned("escalate", <<current_level>>,
                               Escalate(routing, current_level))
    /\ UNCHANGED not_router

\* router.should_escalate(iterations_on_task, duration_seconds), the duration
\* in half seconds.
ShouldEscalateCall ==
    /\ \E iterations_on_task \in 0..3, duration_halves \in 0..5 :
            result' = Returned("should_escalate",
                               <<iterations_on_task, duration_halves>>,
                               <<ShouldEscalate(routing, iterations_on_task,
                                                duration_halves)>>)
    /\ UNCHANGED not_router

InitRouter ==
    /\ board_file = ValidFile(TemplateBoard)
    /\ KanbanFresh
    /\ RunnerFresh
    /\ pc = "Idle"
    /\ agent_available = TRUE
    /\ max_file = None
    /\ pause_file = FALSE
    /\ state_file = None
    /\ routing \in RouterConfigs
    /\ HintsFresh
    /\ HistoryFresh
    /\ history_file = HistoryMissing

NextRouter ==
    \/ RouteTaskCall
    \/ EscalateCall
    \/ ShouldEscalateCall

SpecRouter == InitRouter /\ [][NextRouter]_vars

-----------------------------------------------------------------------------
(* Claims about the router.                                                *)

\* A filter is present when it is set to a non-empty value.
Present(filter) == filter # None /\ filter[1] # ""
PresentPattern(filter) == filter # None /\ filter[1] # <<>>

\* Every present filter of the rule matches the task of a route_task call.
RuleApplies(rule, args) ==
    /\ Present(rule.task_type) => rule.task_type = args[2]
    /\ Present(rule.milestone_id) => rule.milestone_id = args[3]
    /\ PresentPattern(rule.task_id_pattern) =>
          ReMatch(rule.task_id_pattern[1], IdText[args[1]])

\* C14: route_task returns the level of the first rule, in list order, all of
\* whose present filters (task type, milestone id, task-id pattern) match the
\* task: rules before it with a present filter that does not match are
\* skipped, and rules after it that match as well are not looked at.
C14_FirstMatchingRuleWins ==
    result.op = "route_task" =>
        \A i \in DOMAIN routing.rules :
            ( /\ RuleApplies(routing.rules[i], result.arg)
              /\ \A k \in 1..(i - 1) : ~RuleApplies(routing.rules[k], result.arg) )
            => result.val[1] = routing.rules[i].agent_level

\* C14's case: two rules that both match and name different levels, the first
\* after a filter of its own matched; the first one's level is returned.
C14_Witness ==
    /\ result.op = "route_task"
    /\ Len(routing.rules) = 2
    /\ RuleApplies(routing.rules[1], result.arg)
    /\ RuleApplies(routing.rules[2], result.arg)
    /\ Present(routing.rules[1].milestone_id)
    /\ routing.rules[1].agent_level # routing.rules[2].agent_level
    /\ result.val[1] = routing.rules[1].agent_level

\* C15: when no rule matches, route_task returns the current level if one is
\* given and the configured default level otherwise, with the agent
\* configuration of that level.
C15_NoRuleMatchesDefault ==
    ( /\ result.op = "route_task"
      /\ \A i \in DOMAIN routing.rules : ~RuleApplies(routing.rules[i], result.arg) )
    => LET level == IF result.arg[4] # None THEN result.arg[4][1]
                    ELSE routing.default_agent
       IN  /\ result.val[1] = level
           /\ result.val[2] = (IF level \in DOMAIN routing.agents
                               THEN routing.agents[level] ELSE EmptyAgentConfig)

\* C15's case: rules that do not match, a current level that is not the
\* default one, and its configured backend returned.
C15_Witness ==
    /\ result.op = "route_task"
    /\ routing.rules # <<>>
    /\ \A i \in DOMAIN routing.rules : ~RuleApplies(routing.rules[i], result.arg)
    /\ result.arg[4] # None
    /\ result.arg[4][1] # routing.default_agent
    /\ result.val = <<"lou", DefaultAgents["lou"]>>

\* The result escalate has for the level at entry i of a chain of length L:
\* entry i + 1, or none for the last entry.
NextEntry(chain, i) == IF i < Len(chain) THEN Some(chain[i + 1]) ELSE None

\* C16 as stated: with escalation enabled, escalate applied to entry i of the
\* chain returns entry i + 1, and none for the last entry and for a level that
\* is not in the chain; with escalation disabled it returns none.
C16_EscalateNextEntry ==
    result.op = "escalate" =>
        LET chain == routing.escalation.escalation_chain
        IN  IF ~routing.escalation.enabled THEN result.val = None
            ELSE /\ \A i \in DOMAIN chain :
                        chain[i] = result.arg[1] => result.val = NextEntry(chain, i)
                 /\ (\A i \in DOMAIN chain : chain[i] # result.arg[1])
                        => result.val = None

\* C16, amended: the entry that counts is the first one that holds the level.
C16_EscalateAfterFirstOccurrence ==
    result.op = "escalate" =>
        LET chain == routing.escalation.escalation_chain
        IN  IF ~routing.escalation.enabled THEN result.val = None
            ELSE /\ \A i \in DOMAIN chain :
                        ( /\ chain[i] = result.arg[1]
                          /\ \A k \in 1..(i - 1) : chain[k] # result.arg[1] )
                        => result.val = NextEntry(chain, i)
                 /\ (\A i \in DOMAIN chain : chain[i] # result.arg[1])
                        => result.val = None

\* C16's case: escalate on the last but one entry of the default chain.
C16_Witness ==
    /\ result.op = "escalate"
    /\ routing.escalation.enabled
    /\ routing.escalation.escalation_chain = DefaultChain
    /\ result.arg = <<"lou">>
    /\ result.val = Some("matt")

\* C17: should_escalate is false when escalation is disabled; when enabled it
\* is true exactly when the iterations are at least the iteration threshold
\* or the duration is at least the duration threshold.
C17_ShouldEscalateThresholds ==
    result.op = "should_escalate" =>
        result.val[1] =
            ( /\ routing.escalation.enabled
              /\ \/ result.arg[1] >= routing.escalation.trigger_after_iterations
                 \/ result.arg[2] >= 2 * routing.escalation.trigger_after_duration )

\* C17's case: the duration is exactly the threshold and the iterations are
\* below theirs.
C17_Witness ==
    /\ result.op = "should_escalate"
    /\ routing.escalation.enabled
    /\ result.arg[1] < routing.escalation.trigger_after_iterations
    /\ result.arg[2] = 2 * routing.escalation.trigger_after_duration
    /\ result.val[1]

-----------------------------------------------------------------------------
(* history.py: the history file and the baseline.                          *)

Baseline(eta, remaining) == [eta |-> eta, remaining |-> remaining]

\* history.TaskCompletion (the title and the two timestamps left out; the
\* duration is counted on the model's clock).
TaskCompletion(task_id, duration, iterations, status) ==
    [task_id |-> task_id, duration |-> duration, iterations |-> iterations,
     status |-> status]

\* HistoryTracker.load raises: "except (json.JSONDecodeError, KeyError,
\* ValueError)" does not catch the TypeError of TaskCompletion(**item) on a
\* record with other fields, nor the AttributeError of data.get on a top
\* level that is no object.
HistoryLoadRaises(file) == file.kind \in {"bad_record", "not_object"}

\* HistoryTracker.load: the completions it leaves in memory.
LoadedCompletions(file) == IF file.kind = "valid" THEN file.completions ELSE <<>>

\* HistoryTracker.load: the baseline <<eta, remaining>> it leaves in memory,
\* which is the one in memory before when the file has none.
LoadedBaseline(file, eta, remaining) ==
    IF file.kind = "valid" /\ file.baseline # None
    THEN <<file.baseline[1].eta, file.baseline[1].remaining>>
    ELSE <<eta, remaining>>

\* HistoryTracker.save
Saved(cs, eta, remaining) ==
    HistoryDoc(cs, IF eta # None THEN Some(Baseline(eta, remaining)) ELSE None)

\* "successful = [c for c in self.completions if c.status == 'done']"
Successful(cs) == SelectSeq(cs, LAMBDA c : c.status = "done")

RECURSIVE TotalSeconds(_)
TotalSeconds(cs) == IF cs = <<>> THEN 0 ELSE Head(cs).duration + TotalSeconds(Tail(cs))

\* The floats of history.py are kept as exact fractions <<numerator,
\* denominator>> in lowest terms.
RECURSIVE Gcd(_, _)
Gcd(a, b) == IF b = 0 THEN a ELSE Gcd(b, a % b)

Ratio(n, d) == <<n \div Gcd(n, d), d \div Gcd(n, d)>>

Zero == Ratio(0, 1)

GetAverageDuration_AllCompletions(cs) ==
    IF cs = <<>> THEN Zero
    ELSE Ratio(TotalSeconds(cs), Len(cs) * 60)

\* HistoryTracker.get_average_duration, in minutes.
GetAverageDuration(cs) ==
    IF cs = <<>> THEN Zero
    ELSE IF Successful(cs) = <<>> THEN Zero
    ELSE Ratio(TotalSeconds(Successful(cs)), Len(Successful(cs)) * 60)

\* "avg_duration == 0": no done completion, or none that took time.
AverageIsZero(cs) == GetAverageDuration(cs) = Zero

DetectStall_OverMinutes(cs, current_task_duration) ==
    LET avg == GetAverageDuration(cs)
    IN  IF avg = Zero THEN Zero
        ELSE Ratio(current_task_duration * avg[2], avg[1])

\* HistoryTracker.detect_stall
DetectStall(cs, current_task_duration) ==
    LET avg == GetAverageDuration(cs)
        avg_seconds == Ratio(avg[1] * 60, avg[2])
    IN  IF avg_seconds = Zero THEN Zero
        ELSE Ratio(current_task_duration * avg_seconds[2], avg_seconds[1])

RecordCompletion_Twice(cs, completion) == Append(Append(cs, completion), completion)

RecordCompletion_Prepends(cs, completion) == <<completion>> \o cs

\* HistoryTracker.record_completion: the log after the call.
RecordCompletion(cs, completion) == Append(cs, completion)

PredictEta_NoneWithoutHistory(cs, remaining_tasks, now) ==
    IF AverageIsZero(cs) THEN None
    ELSE Some(now + (TotalSeconds(Successful(cs)) * remaining_tasks)
                        \div Len(Successful(cs)))

\* HistoryTracker.predict_eta, in whole seconds.
PredictEta(cs, remaining_tasks, now) ==
    IF remaining_tasks = 0 THEN Some(now)
    ELSE IF AverageIsZero(cs) THEN None
    ELSE Some(now + (TotalSeconds(Successful(cs)) * remaining_tasks)
                        \div Len(Successful(cs)))

\* kanban.get_stats()["todo"]
TodoCount(b) == Cardinality({p \in TaskPositions(b) : TaskAt(b, p).status = "todo"})

-----------------------------------------------------------------------------
(* SpecHistory: direct calls of a HistoryTracker on a history file.        *)

\* Bound: the longest log the callers record.
MaxLog == 5

\* The completions the callers record: done ones of 0 and 3 minutes, and a
\* failed one of 10 minutes.
Completions ==
    { TaskCompletion("M1.1", 0, 1, "done"),
      TaskCompletion("M1.1", 180, 1, "done"),
      TaskCompletion("M1.1", 600, 2, "failed") }

\* The durations asked about and the counts of remaining tasks.
CurrentDurations == {0, 600}
RemainingCounts == {0, 2}

\* The history files the tracker is constructed on.
HistoryFiles ==
    { HistoryMissing, HistoryMalformed, HistoryBadRecord, HistoryNotObject,
      HistoryBadTimestamp,
      HistoryDoc(<<TaskCompletion("M0.1", 300, 1, "done")>>, Some(Baseline(Some(900), 3))) }

not_history == <<board_file, board, pc, agent_available, max_file, pause_file,
                 state_file, max_iterations, current_iteration,
                 current_task_id, current_task_start, current_task_iterations,
                 current_agent_level, last_result, invocations,
                 paused_invocations, left_todo, last_fault, exit_path,
                 routing, prompt_hint, in_flight, agent, hint_file, hints_archive>>

\* history.load()
HistoryLoadCall ==
    /\ IF HistoryLoadRaises(history_file)
       THEN /\ result' = Returned("load", None, "raised")
            /\ UNCHANGED <<completions, baseline_eta, baseline_remaining>>
       ELSE /\ result' = Returned("load", None, "returned")
            /\ completions' = LoadedCompletions(history_file)
            /\ baseline_eta' = LoadedBaseline(history_file, baseline_eta, baseline_remaining)[1]
            /\ baseline_remaining' = LoadedBaseline(history_file, baseline_eta, baseline_remaining)[2]
    /\ UNCHANGED <<not_history, history_file, clock>>

\* history.record_completion(completion)
RecordCompletionCall(completion) ==
    /\ Len(completions) < MaxLog
    /\ completions' = RecordCompletion(completions, completion)
    /\ history_file' = Saved(completions', baseline_eta, baseline_remaining)
    /\ result' = Returned("record_completion", completion, None)
    /\ UNCHANGED <<not_history, baseline_eta, baseline_remaining, clock>>

\* history.get_average_duration()
GetAverageDurationCall ==
    /\ result' = Returned("get_average_duration", None, GetAverageDuration(completions))
    /\ UNCHANGED <<not_history, completions, history_file, baseline_eta,
                   baseline_remaining, clock>>

\* history.detect_stall(current_task_duration)
DetectStallCall(current_task_duration) ==
    /\ result' = Returned("detect_stall", current_task_duration,
                          DetectStall(completions, current_task_duration))
    /\ UNCHANGED <<not_history, completions, history_file, baseline_eta,
                   baseline_remaining, clock>>

\* history.predict_eta(remaining_tasks)
PredictEtaCall(remaining_tasks) ==
    /\ result' = Returned("predict_eta", remaining_tasks,
                          PredictEta(completions, remaining_tasks, Now))
    /\ UNCHANGED <<not_history, completions, history_file, baseline_eta,
                   baseline_remaining, clock>>

\* history.set_baseline(remaining_tasks)
SetBaselineCall(remaining_tasks) ==
    /\ LET eta == PredictEta(completions, remaining_tasks, Now)
       IN  IF eta # None
           THEN /\ baseline_eta' = eta
                /\ baseline_remaining' = remaining_tasks
                /\ history_file' = Saved(completions, eta, remaining_tasks)
           ELSE UNCHANGED <<baseline_eta, baseline_remaining, history_file>>
    /\ result' = Returned("set_baseline", remaining_tasks, None)
    /\ UNCHANGED <<not_history, completions, clock>>

InitHistory ==
    /\ board_file = ValidFile(TemplateBoard)
    /\ KanbanFresh
    /\ RunnerFresh
    /\ pc = "Idle"
    /\ agent_available = TRUE
    /\ max_file = None
    /\ pause_file = FALSE
    /\ state_file = None
    /\ routing = NoRouting
    /\ HintsFresh
    /\ HistoryFresh
    /\ history_file \in HistoryFiles

NextHistory ==
    \/ HistoryLoadCall
    \/ \E completion \in Completions : RecordCompletionCall(completion)
    \/ GetAverageDurationCall
    \/ \E current_task_duration \in CurrentDurations : DetectStallCall(current_task_duration)
    \/ \E remaining_tasks \in RemainingCounts : PredictEtaCall(remaining_tasks)
    \/ \E remaining_tasks \in RemainingCounts : SetBaselineCall(remaining_tasks)
    \/ SecondPasses

SpecHistory == InitHistory /\ [][NextHistory]_vars

-----------------------------------------------------------------------------
(* runner.py: the runner process.                                          *)

\* config.agent's defaults.
ConfigAgent == AgentConfig(Some("opencode"), Some("vllm/qwen3-coder-next"))

\* _create_agent and _create_agent_from_config: the backend that is built and
\* the model it is given (the two backends without a model take none).
CreateAgentFromConfig(agent_config) ==
    LET backend == IF agent_config.backend # None THEN agent_config.backend[1]
                   ELSE "opencode"
        model == IF agent_config.model # None THEN agent_config.model[1]
                 ELSE "vllm/qwen3-coder-next"
    IN  IF backend \in {"opencode", "api"}
        THEN [backend |-> backend, model |-> Some(model)]
        ELSE [backend |-> backend, model |-> None]

\* The "finally" of Runner.run: Controls.clear_state, and run() ends.
RunEnds_KeepsHeartbeat(path) ==
    /\ state_file' = state_file
    /\ pc' = "Ended"
    /\ exit_path' = path

RunEnds(path) ==
    /\ state_file' = None
    /\ pc' = "Ended"
    /\ exit_path' = path

\* Runner.__init__: "config.routing" raises on a configuration that declares
\* no such field, and _create_agent raises when the backend is not available.
Construct ==
    /\ pc = "Idle"
    /\ IF routing.kind # "undeclared" /\ agent_available
       THEN /\ pc' = "Constructed"
            /\ exit_path' = exit_path
            /\ agent' = Some(CreateAgentFromConfig(ConfigAgent))
       ELSE /\ pc' = "Ended"
            /\ exit_path' = "init_raised"
            /\ agent' = agent
    /\ UNCHANGED <<routing, prompt_hint, in_flight, hint_file, hints_archive, clock, history_file,
                   baseline_eta, baseline_remaining>>
    /\ UNCHANGED <<board_file, board, result, agent_available, max_file,
                   pause_file, state_file, max_iterations, current_iteration,
                   current_task_id, current_task_start, current_task_iterations,
                   current_agent_level, completions, last_result, invocations,
                   paused_invocations, left_todo, last_fault>>

InitialBudget_AlwaysConfigured == ConfigMaxIterations

\* "max_iterations = self.controls.get_max_iterations()", and the configured
\* default when it is None.
InitialBudget ==
    IF GetMaxIterations = None THEN ConfigMaxIterations ELSE GetMaxIterations[1]

\* Runner.run up to the loop: the history is loaded; history.load or
\* kanban.load raises before the "try", so nothing is cleared; otherwise the
\* budget is read, or set from the configuration, and the baseline set when
\* there is none and work is left.
RunStart ==
    /\ pc = "Constructed"
    /\ IF HistoryLoadRaises(history_file)
       THEN /\ pc' = "Ended"
            /\ exit_path' = "startup_raised"
            /\ UNCHANGED <<completions, baseline_eta, baseline_remaining, board,
                           max_file, max_iterations, left_todo, history_file>>
       ELSE IF LoadRaises(board_file)
       THEN /\ completions' = LoadedCompletions(history_file)
            /\ pc' = "Ended"
            /\ exit_path' = "startup_raised"
            /\ baseline_eta' = LoadedBaseline(history_file, baseline_eta, baseline_remaining)[1]
            /\ baseline_remaining' = LoadedBaseline(history_file, baseline_eta, baseline_remaining)[2]
            /\ UNCHANGED <<board, max_file, max_iterations, left_todo, history_file>>
       ELSE /\ completions' = LoadedCompletions(history_file)
            /\ board' = Some(board_file.board)
            /\ max_iterations' = InitialBudget
            /\ max_file' = IF GetMaxIterations = None
                           THEN Some(Str(InitialBudget))
                           ELSE max_file
            /\ LET loaded == LoadedBaseline(history_file, baseline_eta, baseline_remaining)
                   todo == TodoCount(board_file.board)
                   eta == PredictEta(LoadedCompletions(history_file), todo, Now)
               IN  IF loaded[1] = None /\ todo > 0 /\ eta # None
                   THEN /\ baseline_eta' = eta
                        /\ baseline_remaining' = todo
                        /\ history_file' = Saved(LoadedCompletions(history_file), eta, todo)
                   ELSE /\ baseline_eta' = loaded[1]
                        /\ baseline_remaining' = loaded[2]
                        /\ history_file' = history_file
            /\ left_todo' = [id \in TaskIds(board_file.board) |-> 0]
            /\ pc' = "LoopTop"
            /\ exit_path' = exit_path
    /\ UNCHANGED <<board_file, result, agent_available, pause_file, state_file,
                   current_iteration, current_task_id, current_task_start,
                   current_task_iterations, current_agent_level,
                   last_result, invocations, paused_invocations, last_fault,
                   routing, prompt_hint, in_flight, agent, hint_file, hints_archive, clock>>

LoopContinues_OneMore == current_iteration <= max_iterations

\* "while self.current_iteration < max_iterations"
LoopContinues == current_iteration < max_iterations

AdoptedBudget_Ignored == max_iterations

\* The budget after "new_max = self.controls.get_max_iterations()".
AdoptedBudget ==
    IF GetMaxIterations # None /\ GetMaxIterations[1] # max_iterations
    THEN GetMaxIterations[1]
    ELSE max_iterations

\* The top of a tick: the counter, the heartbeat, the budget re-read.
TickBegin ==
    /\ pc = "LoopTop"
    /\ LoopContinues
    /\ current_iteration' = current_iteration + 1
    /\ state_file' = Some(Heartbeat(RunnerPid, current_iteration + 1, current_task_id))
    /\ max_iterations' = AdoptedBudget
    /\ pc' = "PauseCheck"
    /\ UNCHANGED <<board_file, board, result, agent_available, max_file,
                   pause_file, current_task_id, current_task_start,
                   current_task_iterations, current_agent_level, completions,
                   last_result, invocations, paused_invocations, left_todo, last_fault,
                   exit_path>>
    /\ UNCHANGED <<routing, prompt_hint, in_flight, agent, hint_file, hints_archive, clock, history_file,
                   baseline_eta, baseline_remaining>>

\* The while condition is false: the loop ends for the budget.
LoopExit ==
    /\ pc = "LoopTop"
    /\ ~LoopContinues
    /\ RunEnds("budget")
    /\ UNCHANGED <<board_file, board, result, agent_available, max_file,
                   pause_file, max_iterations, current_iteration,
                   current_task_id, current_task_start, current_task_iterations,
                   current_agent_level, completions, last_result, invocations,
                   paused_invocations, left_todo, last_fault>>
    /\ UNCHANGED <<routing, prompt_hint, in_flight, agent, hint_file, hints_archive, clock, history_file,
                   baseline_eta, baseline_remaining>>

\* "if self.controls.is_paused(): self.controls.wait_while_paused()"
PauseCheck ==
    /\ pc = "PauseCheck"
    /\ pc' = IF IsPaused THEN "Waiting" ELSE "Select"
    /\ UNCHANGED <<board_file, board, result, agent_available, max_file,
                   pause_file, state_file, max_iterations, current_iteration,
                   current_task_id, current_task_start, current_task_iterations,
                   current_agent_level, completions, last_result, invocations,
                   paused_invocations, left_todo, last_fault, exit_path>>
    /\ UNCHANGED <<routing, prompt_hint, in_flight, agent, hint_file, hints_archive, clock, history_file,
                   baseline_eta, baseline_remaining>>

WaitWhilePausedReturns_NextTick ==
    /\ pc = "Waiting"
    /\ ~IsPaused
    /\ pc' = "LoopTop"
    /\ UNCHANGED <<board_file, board, result, agent_available, max_file,
                   pause_file, state_file, max_iterations, current_iteration,
                   current_task_id, current_task_start, current_task_iterations,
                   current_agent_level, completions, last_result, invocations,
                   paused_invocations, left_todo, last_fault, exit_path>>
    /\ UNCHANGED <<routing, prompt_hint, in_flight, agent, hint_file, hints_archive, clock, history_file,
                   baseline_eta, baseline_remaining>>

\* Controls.wait_while_paused: a poll that finds the flag present sleeps and
\* polls again (no change of state); one that finds it absent returns.
WaitWhilePausedReturns ==
    /\ pc = "Waiting"
    /\ ~IsPaused
    /\ pc' = "Select"
    /\ UNCHANGED <<board_file, board, result, agent_available, max_file,
                   pause_file, state_file, max_iterations, current_iteration,
                   current_task_id, current_task_start, current_task_iterations,
                   current_agent_level, completions, last_result, invocations,
                   paused_invocations, left_todo, last_fault, exit_path>>
    /\ UNCHANGED <<routing, prompt_hint, in_flight, agent, hint_file, hints_archive, clock, history_file,
                   baseline_eta, baseline_remaining>>

\* find_next_task returned None: "break", and the finally.
BoardExhausted ==
    /\ pc = "Select"
    /\ FindNextTask(board[1]) = None
    /\ RunEnds("exhausted")
    /\ UNCHANGED <<board_file, board, result, agent_available, max_file,
                   pause_file, max_iterations, current_iteration,
                   current_task_id, current_task_start, current_task_iterations,
                   current_agent_level, completions, last_result, invocations,
                   paused_invocations, left_todo, last_fault>>
    /\ UNCHANGED <<routing, prompt_hint, in_flight, agent, hint_file, hints_archive, clock, history_file,
                   baseline_eta, baseline_remaining>>

\* A task is selected: a new task resets the tracking; the attempt is counted.
SelectTask ==
    /\ pc = "Select"
    /\ FindNextTask(board[1]) # None
    /\ LET task == FindNextTask(board[1])[2]
           is_new_task == Some(task.id) # current_task_id
       IN  /\ current_task_id' = Some(task.id)
           /\ current_task_start' =
                 IF is_new_task THEN Some(Now) ELSE current_task_start
           /\ current_task_iterations' =
                 (IF is_new_task THEN 0 ELSE current_task_iterations) + 1
           /\ current_agent_level' =
                 IF is_new_task THEN "ralph" ELSE current_agent_level
    /\ pc' = "Route"
    /\ UNCHANGED <<board_file, board, result, agent_available, max_file,
                   pause_file, state_file, max_iterations, current_iteration,
                   completions, last_result, invocations, paused_invocations,
                   left_todo, last_fault, exit_path>>
    /\ UNCHANGED <<routing, prompt_hint, in_flight, agent, hint_file, hints_archive, clock, history_file,
                   baseline_eta, baseline_remaining>>

\* "if should_escalate: next_level = self.router.escalate(...)": the level
\* after the escalation check.
EscalatedLevel_RestartsChain(duration) ==
    IF ShouldEscalate(routing, current_task_iterations, 2 * duration)
    THEN (IF Escalate(routing, current_agent_level) # None
          THEN Escalate(routing, current_agent_level)[1]
          ELSE routing.escalation.escalation_chain[1])
    ELSE current_agent_level

EscalatedLevel(duration) ==
    IF ShouldEscalate(routing, current_task_iterations, 2 * duration)
       /\ Escalate(routing, current_agent_level) # None
    THEN Escalate(routing, current_agent_level)[1]
    ELSE current_agent_level

\* The rest of the tick before the invocation. With a router: the escalation
\* check, route_task, and a backend built anew when the routed level differs
\* from the current one or the task is new (its attempt counter is 1 exactly
\* when is_new_task was true). Then the hint is consumed for the prompt.
PrepareInvocation ==
    /\ pc = "Route"
    /\ IF routing.kind = "config"
       THEN LET next_task == FindNextTask(board[1])
                is_new_task == current_task_iterations = 1
                level == EscalatedLevel(Now - current_task_start[1])
                routed == RouteTask(routing, next_task[2].id, next_task[2].type,
                                    Some(next_task[1].id), Some(level))
            IN  IF routed[1] # level \/ is_new_task
                THEN /\ current_agent_level' = routed[1]
                     /\ agent' = Some(CreateAgentFromConfig(routed[2]))
                ELSE /\ current_agent_level' = level
                     /\ agent' = agent
       ELSE UNCHANGED <<current_agent_level, agent>>
    /\ prompt_hint' = GetHint
    /\ ConsumeHint
    /\ pc' = "Invoke"
    /\ UNCHANGED <<board_file, board, result, agent_available, max_file,
                   pause_file, state_file, max_iterations, current_iteration,
                   current_task_id, current_task_start, current_task_iterations,
                   completions, last_result, invocations, paused_invocations,
                   left_todo, last_fault, exit_path, routing, in_flight, clock,
                   history_file, baseline_eta, baseline_remaining>>

\* What AgentBackend.run returns: exit code 0, a non-zero exit, or the -1 of a
\* timeout or an execution failure.
AgentResults ==
    { [exit_code |-> 0, success |-> TRUE],
      [exit_code |-> 1, success |-> FALSE],
      [exit_code |-> -1, success |-> FALSE] }

\* What the agent may leave in kanban.json: any of the todo tasks resolved
\* (the selected one or others), or a file that no longer loads.
AgentWrites(file) ==
    {ValidFile(b) : b \in Resolutions(file.board, TaskPositions(file.board))}
        \cup {InvalidFile}

\* The tasks whose persisted status leaves todo between two files.
LeavesTodo(before, after, id) ==
    /\ after.kind = "valid"
    /\ GetTask(before.board, id)[1].status = "todo"
    /\ GetTask(after.board, id)[1].status # "todo"

\* "result = self.agent.run(...)": the invocation returns.
AgentRun ==
    /\ pc = "Invoke"
    /\ \E r \in AgentResults, file \in AgentWrites(board_file) :
          /\ last_result' = Some(r)
          /\ board_file' = file
          /\ left_todo' = [id \in DOMAIN left_todo |->
                             IF LeavesTodo(board_file, file, id)
                             THEN left_todo[id] + 1 ELSE left_todo[id]]
          /\ last_fault' = IF ~r.success /\ file = board_file
                           THEN Some([task_id |-> current_task_id[1],
                                      attempt |-> current_task_iterations])
                           ELSE None
    /\ invocations' = invocations + 1
    /\ paused_invocations' = IF pause_file THEN paused_invocations + 1 ELSE 0
    /\ pc' = "Reconcile"
    /\ UNCHANGED <<board, result, agent_available, max_file, pause_file,
                   state_file, max_iterations, current_iteration,
                   current_task_id, current_task_start, current_task_iterations,
                   current_agent_level, completions, exit_path>>
    /\ clock' = clock + 1
    /\ UNCHANGED <<routing, prompt_hint, in_flight, agent, hint_file, hints_archive, history_file,
                   baseline_eta, baseline_remaining>>

\* The invocation raises (HumanAgent.run's input() on a closed stdin): the
\* exception leaves the loop through the finally.
AgentRaises ==
    /\ pc = "Invoke"
    /\ invocations' = invocations + 1
    /\ paused_invocations' = IF pause_file THEN paused_invocations + 1 ELSE 0
    /\ last_fault' = None
    /\ RunEnds("tick_raised")
    /\ UNCHANGED <<board_file, board, result, agent_available, max_file,
                   pause_file, max_iterations, current_iteration,
                   current_task_id, current_task_start, current_task_iterations,
                   current_agent_level, completions, last_result, left_todo>>
    /\ clock' = clock + 1
    /\ UNCHANGED <<routing, prompt_hint, in_flight, agent, hint_file, hints_archive, history_file,
                   baseline_eta, baseline_remaining>>

Resolved_WhenAgentSucceeded(updated_task) ==
    updated_task # None /\ last_result[1].success

Resolved_OrAgentFailed(updated_task) ==
    updated_task # None /\ (updated_task[1].status # "todo" \/ ~last_result[1].success)

\* "if updated_task and updated_task.status != 'todo'"
Resolved(updated_task) ==
    updated_task # None /\ updated_task[1].status # "todo"

\* The board is reloaded and the selected task looked up; a task that is no
\* longer todo is recorded and the tracking reset. Then the sleep.
Reconcile ==
    /\ pc = "Reconcile"
    /\ ~LoadRaises(board_file)
    /\ board' = Some(board_file.board)
    /\ LET updated_task == GetTask(board_file.board, current_task_id[1])
       IN  IF Resolved(updated_task)
           THEN /\ completions' = RecordCompletion(completions,
                      TaskCompletion(current_task_id[1],
                                     Now - current_task_start[1],
                                     current_task_iterations,
                                     updated_task[1].status))
                /\ history_file' = Saved(completions', baseline_eta, baseline_remaining)
                /\ current_task_id' = None
                /\ current_task_start' = None
                /\ current_task_iterations' = 0
                /\ current_agent_level' = "ralph"
           ELSE UNCHANGED <<completions, history_file, current_task_id,
                            current_task_start, current_task_iterations,
                            current_agent_level>>
    /\ last_result' = None
    /\ pc' = "LoopTop"
    /\ UNCHANGED <<board_file, result, agent_available, max_file, pause_file,
                   state_file, max_iterations, current_iteration, invocations,
                   paused_invocations, left_todo, last_fault, exit_path>>
    /\ UNCHANGED <<routing, prompt_hint, in_flight, agent, hint_file, hints_archive, clock,
                   baseline_eta, baseline_remaining>>

\* "self.kanban.load()" raises on the file the agent left: the finally.
ReloadRaises ==
    /\ pc = "Reconcile"
    /\ LoadRaises(board_file)
    /\ RunEnds("tick_raised")
    /\ UNCHANGED <<board_file, board, result, agent_available, max_file,
                   pause_file, max_iterations, current_iteration,
                   current_task_id, current_task_start, current_task_iterations,
                   current_agent_level, completions, last_result, invocations,
                   paused_invocations, left_todo, last_fault>>
    /\ UNCHANGED <<routing, prompt_hint, in_flight, agent, hint_file, hints_archive, clock, history_file,
                   baseline_eta, baseline_remaining>>

RunnerStep ==
    \/ Construct
    \/ RunStart
    \/ TickBegin
    \/ LoopExit
    \/ PauseCheck
    \/ WaitWhilePausedReturns
    \/ BoardExhausted
    \/ SelectTask
    \/ PrepareInvocation
    \/ AgentRun
    \/ AgentRaises
    \/ Reconcile
    \/ ReloadRaises

\* The runner's world before construction: any board file, a heartbeat
\* possibly left by a process that died, no control file yet.
Init ==
    /\ board_file \in {MissingFile, InvalidFile} \cup {ValidFile(b) : b \in Boards}
    /\ KanbanFresh
    /\ RunnerFresh
    /\ pc = "Idle"
    /\ agent_available \in BOOLEAN
    /\ max_file = None
    /\ pause_file = FALSE
    /\ state_file \in {None, Some(Heartbeat(StalePid, 1, None))}
    /\ routing \in {NoRouting, UndeclaredRouting}
    /\ HintsFresh
    /\ HistoryFresh
    /\ history_file = HistoryMissing

Next ==
    \/ Construct
    \/ RunStart
    \/ TickBegin
    \/ LoopExit
    \/ PauseCheck
    \/ WaitWhilePausedReturns
    \/ BoardExhausted
    \/ SelectTask
    \/ PrepareInvocation
    \/ AgentRun
    \/ AgentRaises
    \/ Reconcile
    \/ ReloadRaises
    \/ Pause
    \/ Resume
    \/ \E n \in 0..MaxBudget : SetMaxIterations(n)
    \/ \E n \in 1..MaxBudget : AddIterations(n)

Spec == Init /\ [][Next]_vars

\* The loop with the budget left alone once run() has started: the external
\* actors write the budget only before. The runner always takes its next step
\* (an invocation returns or raises), a pause is lifted in the end, and a poll
\* of wait_while_paused sees a lifted pause.
NextStableBudget ==
    \/ RunnerStep
    \/ Pause
    \/ Resume
    \/ (pc = "Idle" /\ \E n \in 0..MaxBudget : SetMaxIterations(n))
    \/ (pc = "Idle" /\ \E n \in 1..MaxBudget : AddIterations(n))

SpecFair ==
    /\ Init
    /\ [][NextStableBudget]_vars
    /\ WF_vars(RunnerStep)
    /\ WF_vars(Resume)
    /\ SF_vars(WaitWhilePausedReturns)

-----------------------------------------------------------------------------
(* SpecRouting: the runner on a configuration with routing, hints set from  *)
(* outside while it runs.                                                  *)

\* A board with a task that has a type.
RoutedBoard ==
    << Milestone("M1", {}, <<TypedTask("M1.1", "code"), Task("M1.2")>>) >>

\* Routing configurations: escalation after one attempt on the default
\* chain, on a chain of two levels, and on a chain that names a level twice;
\* after two attempts on a chain that starts above ralph; after one second
\* with a rule on the milestone; after one attempt with a rule on the type;
\* no escalation with a rule on the type and the two local levels configured
\* only.
RunnerRoutings ==
    { RoutingConfig(DefaultAgents, <<>>, "ralph",
                    EscalationConfig(TRUE, 1, 1800, DefaultChain)),
      RoutingConfig(DefaultAgents, <<>>, "ralph",
                    EscalationConfig(TRUE, 1, 1800, <<"ralph", "eddie">>)),
      RoutingConfig(DefaultAgents, <<>>, "ralph",
                    EscalationConfig(TRUE, 1, 1800, <<"ralph", "eddie", "ralph">>)),
      RoutingConfig(DefaultAgents, <<>>, "eddie",
                    EscalationConfig(TRUE, 2, 1800, <<"eddie", "lou">>)),
      RoutingConfig(DefaultAgents,
                    <<RoutingRule(Some("code"), None, None, "ralph", None)>>,
                    "ralph", EscalationConfig(TRUE, 1, 1800, DefaultChain)),
      RoutingConfig(DefaultAgents,
                    <<RoutingRule(None, Some("M2"), None, "eddie", Some("vllm/big"))>>,
                    "ralph", EscalationConfig(TRUE, 3, 1, DefaultChain)),
      RoutingConfig(LocalAgents,
                    <<RoutingRule(Some("code"), None, None, "lou", None)>>,
                    "ralph", DefaultEscalation) }

InitRouting ==
    /\ board_file \in {ValidFile(TemplateBoard), ValidFile(RoutedBoard)}
    /\ KanbanFresh
    /\ RunnerFresh
    /\ pc = "Idle"
    /\ agent_available = TRUE
    /\ max_file = None
    /\ pause_file = FALSE
    /\ state_file = None
    /\ routing \in RunnerRoutings
    /\ HintsFresh
    /\ HistoryFresh
    /\ history_file = HistoryMissing

NextRouting ==
    \/ Construct
    \/ RunStart
    \/ TickBegin
    \/ LoopExit
    \/ PauseCheck
    \/ BoardExhausted
    \/ SelectTask
    \/ PrepareInvocation
    \/ AgentRun
    \/ AgentRaises
    \/ Reconcile
    \/ ReloadRaises
    \/ \E hint \in HintTexts : SetHintCall(hint)

SpecRouting == InitRouting /\ [][NextRouting]_vars

-----------------------------------------------------------------------------
(* SpecRestarts: the runner started again and again on the same working    *)
(* directory, each time as a new process.                                  *)

\* Bound: a new process is started only before this many seconds have passed.
MaxUptime == 3

\* History files found by the first start: none, a malformed one, one that is
\* no object, a log with one failed task, a log with one done task, and the latter with a baseline.
InitialHistories ==
    { HistoryMissing,
      HistoryMalformed,
      HistoryNotObject,
      HistoryDoc(<<TaskCompletion("M0.1", 2, 1, "failed")>>, None),
      HistoryDoc(<<TaskCompletion("M0.1", 2, 1, "done")>>, None),
      HistoryDoc(<<TaskCompletion("M0.1", 2, 1, "done")>>,
                 Some(Baseline(Some(5), 3))) }

InitRestarts ==
    /\ \E b \in Boards : board_file = ValidFile(b)
    /\ KanbanFresh
    /\ RunnerFresh
    /\ pc = "Idle"
    /\ agent_available = TRUE
    /\ max_file = None
    /\ pause_file = FALSE
    /\ state_file = None
    /\ routing = NoRouting
    /\ HintsFresh
    /\ HistoryFresh
    /\ history_file \in InitialHistories

\* The process has ended and a new one is started on the same directory:
\* Runner.__init__ from the start, the files as they were left.
Restart ==
    /\ pc = "Ended"
    /\ clock < MaxUptime
    /\ pc' = "Idle"
    /\ board' = None
    /\ result' = [op |-> "none", val |-> None]
    /\ max_iterations' = 0
    /\ current_iteration' = 0
    /\ current_task_id' = None
    /\ current_task_start' = None
    /\ current_task_iterations' = 0
    /\ current_agent_level' = "ralph"
    /\ completions' = <<>>
    /\ last_result' = None
    /\ invocations' = 0
    /\ paused_invocations' = 0
    /\ left_todo' = [id \in {} |-> 0]
    /\ last_fault' = None
    /\ exit_path' = "none"
    /\ baseline_eta' = None
    /\ baseline_remaining' = 0
    /\ agent' = None
    /\ prompt_hint' = None
    /\ UNCHANGED <<board_file, agent_available, max_file, pause_file,
                   state_file, routing, in_flight, hint_file, hints_archive, clock,
                   history_file>>

NextRestarts ==
    \/ Construct
    \/ RunStart
    \/ TickBegin
    \/ LoopExit
    \/ PauseCheck
    \/ BoardExhausted
    \/ SelectTask
    \/ PrepareInvocation
    \/ AgentRun
    \/ AgentRaises
    \/ Reconcile
    \/ ReloadRaises
    \/ Restart

SpecRestarts == InitRestarts /\ [][NextRestarts]_vars

-----------------------------------------------------------------------------
(* SpecAlive: the runner, which may be killed, and a caller that asks      *)
(* whether it is alive.                                                    *)

\* The heartbeat files found at the start: none, one left by a process that
\* died, one of a runner of another user that is running.
InitialHeartbeats ==
    { None,
      Some(Heartbeat(StalePid, 1, None)),
      Some(Heartbeat(ForeignPid, 1, None)) }

InitAlive ==
    /\ board_file = ValidFile(TemplateBoard)
    /\ KanbanFresh
    /\ RunnerFresh
    /\ pc = "Idle"
    /\ agent_available = TRUE
    /\ max_file = None
    /\ pause_file = FALSE
    /\ state_file \in InitialHeartbeats
    /\ routing = NoRouting
    /\ HintsFresh
    /\ HistoryFresh
    /\ history_file = HistoryMissing

\* controls.is_runner_alive(), as the status surface calls it.
IsRunnerAliveCall ==
    /\ result' = Returned("is_runner_alive", None, IsRunnerAlive)
    /\ UNCHANGED <<board_file, board, runner_vars>>

\* The runner's process is killed inside the loop: no "finally" runs.
Killed ==
    /\ pc \in {"LoopTop", "PauseCheck", "Select", "Route", "Invoke", "Reconcile"}
    /\ pc' = "Ended"
    /\ exit_path' = "killed"
    /\ UNCHANGED <<board_file, board, result, agent_available, max_file,
                   pause_file, state_file, max_iterations, current_iteration,
                   current_task_id, current_task_start,
                   current_task_iterations, current_agent_level, completions,
                   last_result, invocations, paused_invocations, left_todo,
                   last_fault, routing, prompt_hint, in_flight, agent, hint_file, hints_archive, clock,
                   history_file, baseline_eta, baseline_remaining>>

NextAlive ==
    \/ Construct
    \/ RunStart
    \/ TickBegin
    \/ LoopExit
    \/ PauseCheck
    \/ BoardExhausted
    \/ SelectTask
    \/ PrepareInvocation
    \/ AgentRun
    \/ AgentRaises
    \/ Reconcile
    \/ ReloadRaises
    \/ Killed
    \/ IsRunnerAliveCall

SpecAlive == InitAlive /\ [][NextAlive]_vars

-----------------------------------------------------------------------------
(* Claims about the runner loop.                                           *)

tracking == <<current_task_id, current_task_start, current_task_iterations,
              current_agent_level>>

NormalExit == pc = "Ended" /\ exit_path \in {"budget", "exhausted"}

C4_HeartbeatClearedOnExit ==
    (pc = "Ended" /\ exit_path \in {"budget", "exhausted", "tick_raised"})
        => state_file = None

\* C4's case: a tick wrote the heartbeat and then raised on reloading the
\* board file the agent left.
C4_Witness ==
    /\ pc = "Ended"
    /\ exit_path = "tick_raised"
    /\ current_iteration >= 1
    /\ LoadRaises(board_file)
    /\ state_file = None

\* C5: from a pause check that finds the flag, until the flag is absent, the
\* loop selects no task and invokes no agent, and it goes on to the selection
\* only in a step that finds the flag absent; so while the flag stays set, at
\* most one invocation starts.
C5_PausedLoopWaits ==
    /\ [][((pc = "PauseCheck" /\ pause_file) \/ pc = "Waiting") =>
            /\ invocations' = invocations
            /\ tracking' = tracking
            /\ pc' \in {pc, "Waiting", "Select"}
            /\ pc' = "Select" => ~pause_file]_vars
    /\ [](pause_file => paused_invocations <= 1)

\* C5's case: the flag was set after the tick's pause check, one invocation
\* still started, and the next tick waits.
C5_Witness ==
    /\ pause_file
    /\ paused_invocations = 1
    /\ pc = "Waiting"

\* C6: a loop that has run a tick never stops for budget exhaustion while the
\* budget stored in the control channel is greater than the iteration counter.
C6_NoBudgetStopBelowStoredBudget ==
    [][(pc = "LoopTop" /\ pc' = "Ended" /\ current_iteration >= 1) =>
          ~(GetMaxIterations # None /\ GetMaxIterations[1] > current_iteration)]_vars

\* The reconcile step of a tick.
ReconcileStep == pc = "Reconcile" /\ pc' = "LoopTop"

\* The selected task's persisted status at the reconcile step.
PersistedStatus == GetTask(board_file.board, current_task_id[1])[1].status

CompletionsOf(id) == Cardinality({k \in DOMAIN completions : completions[k].task_id = id})

\* C8: when the loop has ended, every task has one completion for each time
\* its persisted status left todo during the run.
C8_OneCompletionPerResolution ==
    NormalExit => \A id \in DOMAIN left_todo : CompletionsOf(id) = left_todo[id]

C10_StartupFaultsAreFatal ==
    (~agent_available \/ (invocations = 0 /\ board_file.kind # "valid")) =>
        /\ pc \in {"Idle", "Constructed", "Ended"}
        /\ pc = "Ended" => exit_path \in {"init_raised", "startup_raised"}
        /\ current_iteration = 0
        /\ invocations = 0
        /\ state_file # None => state_file[1].pid # RunnerPid
        /\ board = None

\* C10's case: run() has raised on an invalid board file, with the budget and
\* the pause flag set by an external actor before.
C10_Witness ==
    /\ pc = "Ended"
    /\ exit_path = "startup_raised"
    /\ board_file = InvalidFile
    /\ agent_available
    /\ max_file # None

-----------------------------------------------------------------------------
(* Claims about the runner with routing.                                   *)

\* The step of a tick that selects a task other than the tracked one.
SelectsNewTask ==
    /\ pc = "Select"
    /\ pc' = "Route"
    /\ current_task_id' # current_task_id

\* C18: escalation state is scoped to the current task. Whenever the task
\* selected in a tick differs from the tracked one, the attempt counter is
\* reset to zero and counts this attempt (1), the start timestamp is now, and
\* the capability level is reset to the first level of the configured
\* escalation chain, whatever chain is configured.
C18_NewTaskResetsToChainStart ==
    [][SelectsNewTask =>
        /\ current_task_iterations' = 1
        /\ current_task_start' = Some(Now)
        /\ (routing.kind = "config" /\ routing.escalation.escalation_chain # <<>>)
              => current_agent_level' = routing.escalation.escalation_chain[1]]_vars

\* C19: with routing configured, in every tick the backend that is invoked is
\* the one configured for the level the runner holds as current at that
\* moment, also in a tick in which should_escalate held and escalate returned
\* a next level.
C19_BackendFollowsLevel ==
    (pc = "Invoke" /\ routing.kind = "config") =>
        agent[1].backend =
            CreateAgentFromConfig(AgentsGet(routing, current_agent_level)).backend

-----------------------------------------------------------------------------
(* Claims about the baseline.                                              *)

\* run() gets past its loads and enters the loop.
StartsLoop == pc = "Constructed" /\ pc' = "LoopTop"

\* The baseline the history file holds.
FileBaseline(file) == IF file.kind = "valid" THEN file.baseline ELSE None

\* The first start of the loop (the budget file is written by the first start
\* and kept by the later ones), with todo tasks on the board and no baseline
\* in the history file, captures one: the predicted eta and the count of todo
\* tasks, in memory and in the history file.
BaselineCapturedOnFirstStart ==
    (StartsLoop /\ max_file = None /\ FileBaseline(history_file) = None
                /\ TodoCount(board_file.board) > 0)
        => /\ baseline_eta' # None
           /\ baseline_remaining' = TodoCount(board_file.board)
           /\ FileBaseline(history_file')
                = Some(Baseline(baseline_eta', baseline_remaining'))

\* A baseline in the history file stays as it is, and a start of the loop
\* that finds one holds that one.
BaselineNeverReplaced ==
    FileBaseline(history_file) # None =>
        /\ FileBaseline(history_file') = FileBaseline(history_file)
        /\ StartsLoop =>
              Some(Baseline(baseline_eta', baseline_remaining'))
                = FileBaseline(history_file)

\* Every step leaves an existing baseline alone.
BaselineKeptByEveryStep == [][BaselineNeverReplaced]_vars

\* C20: on the first loop start with outstanding work and no existing
\* baseline, a baseline (the predicted eta and the count of todo tasks at that
\* moment) is captured; and once a baseline exists, no later start of the loop
\* replaces or changes it.
C20_BaselineCapturedOnce ==
    [][BaselineCapturedOnFirstStart /\ BaselineNeverReplaced]_vars

-----------------------------------------------------------------------------
(* Claims about the history tracker.                                       *)

\* The places of the done completions in a log, and the sum of the durations
\* at a set of places.
DoneIndexes(cs) == {k \in DOMAIN cs : cs[k].status = "done"}

RECURSIVE SumDurations(_, _)
SumDurations(cs, S) ==
    IF S = {} THEN 0
    ELSE LET k == CHOOSE k \in S : TRUE
         IN  cs[k].duration + SumDurations(cs, S \ {k})

DoneSeconds(cs) == SumDurations(cs, DoneIndexes(cs))

DoneCount(cs) == Cardinality(DoneIndexes(cs))

\* C23: get_average_duration is the mean duration, in minutes, of the
\* completions with status done: it is 0 when the log holds no done
\* completion, recording a failed completion never changes it, and five done
\* completions of 180 seconds each give 3 minutes.
C23_AverageOverDone ==
    /\ [](result.op = "get_average_duration" =>
            IF DoneIndexes(completions) = {} THEN result.val = <<0, 1>>
            ELSE /\ result.val[2] > 0
                 /\ result.val[1] * 60 * DoneCount(completions)
                      = result.val[2] * DoneSeconds(completions))
    /\ []((/\ result.op = "get_average_duration"
           /\ completions = [k \in 1..5 |-> TaskCompletion("M1.1", 180, 1, "done")])
            => result.val = <<3, 1>>)
    /\ [][(result'.op = "record_completion" /\ clock' = clock
                /\ result'.arg.status = "failed")
            => GetAverageDuration(completions') = GetAverageDuration(completions)]_vars

\* C23's case: the average of a log with a failed completion next to done
\* ones of 3 and 5 minutes is 4 minutes.
C23_Witness ==
    /\ result.op = "get_average_duration"
    /\ result.val = <<4, 1>>
    /\ DoneCount(completions) = 2
    /\ \E k \in DOMAIN completions : completions[k].status = "failed"

\* C24 as stated: detect_stall(current) returns 0 when no done completion
\* exists, and otherwise the quotient of current and the average done
\* duration in seconds.
C24_DetectStallRatio ==
    result.op = "detect_stall" =>
        IF DoneIndexes(completions) = {} THEN result.val = <<0, 1>>
        ELSE result.val[1] * DoneSeconds(completions)
                = result.val[2] * result.arg * DoneCount(completions)

\* C24: detect_stall(current) returns 0 when the average done duration is 0
\* (no done completion, or done completions that took no time), and
\* otherwise the quotient of current and the average done duration in
\* seconds; an average of 5 minutes and 600 seconds give 2.
C24_DetectStallRatioOrZero ==
    result.op = "detect_stall" =>
        /\ IF DoneIndexes(completions) = {} \/ DoneSeconds(completions) = 0
           THEN result.val = <<0, 1>>
           ELSE /\ result.val[2] > 0
                /\ result.val[1] * DoneSeconds(completions)
                     = result.val[2] * result.arg * DoneCount(completions)
        /\ (/\ result.arg = 600
            /\ DoneCount(completions) > 0
            /\ DoneSeconds(completions) = 300 * DoneCount(completions))
             => result.val = <<2, 1>>

\* C24's case: the log holds one done completion, of 5 minutes, next to
\* failed ones, and 600 seconds are twice the average.
C24_Witness ==
    /\ result.op = "detect_stall"
    /\ result.arg = 600
    /\ result.val = <<2, 1>>
    /\ DoneCount(completions) = 1
    /\ DoneSeconds(completions) = 300
    /\ Len(completions) > 1

\* The step is a call predict_eta(remaining).
PredictEtaReturns == result'.op = "predict_eta" /\ clock' = clock

\* C25 as stated: predict_eta(remaining) returns the current time when
\* remaining is 0, none when remaining is not 0 and there is no done
\* completion, and otherwise the current time plus the average duration times
\* remaining.
C25_PredictEta ==
    [][PredictEtaReturns =>
        IF result'.arg = 0 THEN result'.val = Some(Now)
        ELSE IF DoneIndexes(completions) = {} THEN result'.val = None
        ELSE /\ result'.val # None
             /\ (result'.val[1] - Now) * DoneCount(completions)
                  = DoneSeconds(completions) * result'.arg]_vars

\* C25: predict_eta(remaining) returns the current time when remaining is 0,
\* also with no history; none when remaining is not 0 and the average done
\* duration is 0 (no done completion, or done completions that took no time);
\* and otherwise the current time plus the average duration times remaining.
C25_PredictEtaOrNone ==
    [][PredictEtaReturns =>
        IF result'.arg = 0 THEN result'.val = Some(Now)
        ELSE IF DoneIndexes(completions) = {} \/ DoneSeconds(completions) = 0
             THEN result'.val = None
        ELSE /\ result'.val # None
             /\ (result'.val[1] - Now) * DoneCount(completions)
                  = DoneSeconds(completions) * result'.arg]_vars

\* C25's case: one second after the start, with done completions averaging 4
\* minutes, two remaining tasks are predicted to end 480 seconds from now.
C25_Witness ==
    /\ result.op = "predict_eta"
    /\ result.arg = 2
    /\ clock = 1
    /\ result.val = Some(481)
    /\ DoneCount(completions) = 2

\* C26: HistoryTracker.load never fails on malformed content: on a history
\* file that is invalid JSON, holds a completion record with missing or extra
\* fields, has a top level that is no object, or holds a baseline timestamp
\* that does not parse, load returns normally with an empty completion log.
C26_LoadNeverFails ==
    (result.op = "load" /\ history_file.kind \notin {"valid", "missing"}) =>
        /\ result.val = "returned"
        /\ completions = <<>>

\* C28: the completion log is append-only. A record_completion call leaves
\* the log as it was with the completion added at the end, leaves the
\* baseline, and leaves in the history file the log in memory and that
\* baseline; the calls that only read leave the log alone.
C28_AppendOnly ==
    [][/\ (result'.op = "record_completion" /\ clock' = clock) =>
            /\ completions' = completions \o <<result'.arg>>
            /\ baseline_eta' = baseline_eta
            /\ baseline_remaining' = baseline_remaining
            /\ history_file'
                 = HistoryDoc(completions',
                              IF baseline_eta # None
                              THEN Some(Baseline(baseline_eta, baseline_remaining))
                              ELSE None)
       /\ result'.op \notin {"record_completion", "load"} =>
            completions' = completions]_vars

\* C28's case: three completions recorded, the first two different, on a
\* tracker that holds a baseline, and the file holds them in that order.
C28_Witness ==
    /\ result.op = "record_completion"
    /\ Len(completions) = 3
    /\ completions[1] # completions[2]
    /\ completions[3] = result.arg
    /\ baseline_eta # None
    /\ history_file.completions = completions
    /\ history_file.baseline # None

-----------------------------------------------------------------------------
(* Claims about the liveness probe.                                        *)

\* The process a heartbeat's identifier names is running.
ProcessRunning(pid) == (pid = RunnerPid /\ pc # "Ended") \/ pid = ForeignPid

\* The step is a call is_runner_alive().
IsRunnerAliveReturns ==
    /\ result'.op = "is_runner_alive"
    /\ UNCHANGED <<pc, state_file, current_iteration>>

\* C27: is_runner_alive is true iff a heartbeat exists and the process
\* identifier it records belongs to a running process. So it is false before
\* the first tick and after every exit of the loop, true throughout the ticks
\* of a running loop, and false on a heartbeat left behind by a process that
\* died without cleanup, which the status surface reports as crashed (not
\* alive, and a heartbeat exists).
C27_IsRunnerAlive ==
    [][IsRunnerAliveReturns =>
        /\ result'.val = (state_file # None /\ ProcessRunning(state_file[1].pid))
        /\ current_iteration = 0 => result'.val = FALSE
        /\ (pc = "Ended" /\ exit_path \notin {"startup_raised", "killed"})
              => result'.val = FALSE
        /\ (pc # "Ended" /\ current_iteration > 0) => result'.val = TRUE
        /\ (state_file # None /\ ~ProcessRunning(state_file[1].pid))
              => (result'.val = FALSE /\ ReadState # None)]_vars

-----------------------------------------------------------------------------
(* Claims about hints and escalation in the loop.                          *)

\* The step of a tick that consumes the hint and builds the prompt, after
\* which the agent is invoked.
PreparesInvocation == pc = "Route" /\ pc' = "Invoke"

\* C29: a pending hint is single-use in the loop. The pending hint is removed
\* only by the step right before an agent invocation, which passes it to that
\* invocation; that step leaves no hint pending, so an invocation gets a hint
\* only when one was pending at its own step, and each hint written by
\* set_hint reaches at most one invocation; and a tick that stops at board
\* exhaustion leaves the pending hint in place.
C29_HintSingleUse ==
    [][/\ (hint_file # None /\ hint_file' = None) =>
            (PreparesInvocation /\ prompt_hint' = Some(Strip(hint_file[1])))
       /\ PreparesInvocation =>
            /\ hint_file' = None
            /\ hint_file = None => prompt_hint' = None
       /\ (pc # "Ended" /\ pc' = "Ended" /\ exit_path' = "exhausted") =>
            hint_file' = hint_file
       /\ ~PreparesInvocation =>
            (prompt_hint' = prompt_hint /\ invocations' >= invocations)]_vars

\* C29's case: a hint has been consumed by an earlier tick of the run, and
\* the next invocation is prepared without one.
C29_Witness ==
    /\ pc = "Invoke"
    /\ invocations = 1
    /\ prompt_hint = None
    /\ hint_file = None
    /\ DOMAIN hints_archive # {}

\* The tick decides on escalation: should_escalate holds at the prepare step.
EscalationDue ==
    /\ pc = "Route"
    /\ pc' # pc
    /\ routing.kind = "config"
    /\ routing.escalation.escalation_chain # <<>>
    /\ ShouldEscalate(routing, current_task_iterations,
                      2 * (Now - current_task_start[1]))

\* No rule of the configuration matches the task of the tick.
NoRuleMatches ==
    LET next_task == FindNextTask(board[1])
    IN  \A i \in DOMAIN routing.rules :
            ~MatchesRule(routing.rules[i], next_task[2].id, next_task[2].type,
                         Some(next_task[1].id))

\* C30 as stated: when the current level is the last entry of the chain and
\* should_escalate holds, the level stays at that entry, the agent is invoked
\* in the tick, and the loop neither stops nor raises because of it.
C30_ExhaustionStaysAtLastEntry ==
    [][(/\ EscalationDue
        /\ current_agent_level
             = routing.escalation.escalation_chain[Len(routing.escalation.escalation_chain)])
        => /\ pc' = "Invoke"
           /\ current_agent_level' = current_agent_level]_vars

\* C30: escalation exhaustion is not an error. When escalate has no next
\* level for the current level (the first entry of the chain that holds the
\* level is its last entry) and should_escalate holds, the tick goes on to
\* invoke the agent, neither stopping nor raising, and when no routing rule
\* matches the task the level stays as it is.
C30_ExhaustionContinues ==
    [][(/\ EscalationDue
        /\ routing.escalation.enabled
        /\ current_agent_level \in {routing.escalation.escalation_chain[i] :
                                      i \in DOMAIN routing.escalation.escalation_chain}
        /\ ChainIndex(routing.escalation.escalation_chain, current_agent_level)
             = Len(routing.escalation.escalation_chain))
        => /\ pc' = "Invoke"
           /\ NoRuleMatches => current_agent_level' = current_agent_level]_vars

\* C30's case: on the chain of two levels the second tick of a task finds the
\* level at the last entry with should_escalate holding, and the agent is
\* about to be invoked again at that level.
C30_Witness ==
    /\ pc = "Invoke"
    /\ routing.kind = "config"
    /\ routing.escalation.escalation_chain = <<"ralph", "eddie">>
    /\ current_agent_level = "eddie"
    /\ current_task_iterations = 2
    /\ invocations = 1

-----------------------------------------------------------------------------
(* Claims about the ticks of the loop.                                     *)

\* C31: at the moment the agent is invoked in a tick, the heartbeat's
\* iteration equals the iteration counter and its task id is the identifier
\* of the task being invoked.
C31_HeartbeatNamesInvokedTask ==
    pc = "Invoke" =>
        /\ state_file # None
        /\ state_file[1].pid = RunnerPid
        /\ state_file[1].iteration = current_iteration
        /\ state_file[1].task_id = current_task_id

\* C32: wait_while_paused returns once the pause flag is gone. A loop blocked
\* on the pause that finds the flag absent, the flag not being set again,
\* goes on to the task selection; it does so in the tick that found the
\* pause, the iteration counter as it was when the tick began to wait.
C32_ResumesInSameTick ==
    /\ (pc = "Waiting" /\ ~pause_file) ~> (pc = "Select" \/ pause_file)
    /\ [][pc = "Waiting" =>
            /\ pc' \in {"Waiting", "Select"}
            /\ current_iteration' = current_iteration
            /\ invocations' = invocations]_vars

\* C32's case: the second tick is blocked on the pause and the flag has been
\* removed.
C32_Witness ==
    /\ pc = "Waiting"
    /\ ~pause_file
    /\ current_iteration = 2
    /\ invocations = 1

\* The step of run() that enters the loop.
EntersLoop == pc = "Constructed" /\ pc' = "LoopTop"

\* C33: at loop start, with no budget stored the loop's budget is the
\* configured default, which is written to the control channel; with a budget
\* stored the loop's budget is the stored value, and the stored value is left
\* as it is.
C33_UnsetBudgetUsesDefault ==
    [][EntersLoop =>
          IF GetMaxIterations = None
          THEN /\ max_iterations' = ConfigMaxIterations
               /\ GetMaxIterations' = Some(ConfigMaxIterations)
          ELSE /\ max_iterations' = GetMaxIterations[1]
               /\ max_file' = max_file]_vars

\* C33's case: the loop has started on a stored budget that is not the
\* configured default.
C33_Witness ==
    /\ pc = "LoopTop"
    /\ current_iteration = 0
    /\ GetMaxIterations = Some(max_iterations)
    /\ max_iterations # ConfigMaxIterations

\* C34: in every reachable state of a run (on an empty completion log), the
\* iteration counter changes only at the top of a tick, by 1; the invocation
\* counter changes only when the invocation of a tick returns or raises, by
\* 1, and never exceeds the iteration counter; the attempt counter of the
\* tracked task never exceeds the iteration counter; and the completions
\* recorded never exceed the invocations.
C34_CountersBounded ==
    /\ [](/\ invocations <= current_iteration
          /\ current_task_iterations <= current_iteration
          /\ Len(completions) <= invocations
          /\ pc \in {"Invoke", "Route"} => invocations < current_iteration)
    /\ [][/\ current_iteration' # current_iteration =>
               (pc = "LoopTop" /\ current_iteration' = current_iteration + 1)
          /\ invocations' # invocations =>
               (pc = "Invoke" /\ pc' # "Invoke" /\ invocations' = invocations + 1)]_vars

\* C34's case: two ticks have each invoked the agent and each recorded a
\* completion.
C34_Witness ==
    /\ current_iteration = 2
    /\ invocations = 2
    /\ Len(completions) = 2

\* The milestones of the board with an id, all of whose tasks are done.
DoneMilestone(b, id) ==
    \E k \in DOMAIN b :
        /\ b[k].id = id
        /\ \A j \in DOMAIN b[k].tasks : b[k].tasks[j].status = "done"

\* A milestone one of whose blockers holds a task that is not done, or names
\* no milestone of the board.
Stuck(b, i) == \E blocker \in b[i].blocked_by : ~DoneMilestone(b, blocker)

\* The step of a tick that follows find_next_task.
AfterFindNextTask == pc = "Select" /\ pc' # pc

\* C35: a failed task never counts as done. The loop selects no task of a
\* milestone one of whose blockers holds a failed (or todo) task or names no
\* milestone of the board; and when every milestone with a todo task is
\* blocked that way, the loop stops as board-exhausted although todo tasks
\* remain.
C35_FailedBlockerBlocks ==
    [][AfterFindNextTask =>
          LET b == board[1]
          IN  /\ pc' = "Route" =>
                    \E i \in DOMAIN b :
                        /\ ~Stuck(b, i)
                        /\ \E j \in DOMAIN b[i].tasks :
                              /\ b[i].tasks[j].id = current_task_id'[1]
                              /\ b[i].tasks[j].status = "todo"
              /\ (\A i \in DOMAIN b :
                     (\E j \in DOMAIN b[i].tasks : b[i].tasks[j].status = "todo")
                         => Stuck(b, i))
                    => (pc' = "Ended" /\ exit_path' = "exhausted")]_vars

\* C35's case: the loop has stopped as board-exhausted with a failed task in
\* a blocker and a todo task left in the milestone it blocks.
C35_Witness ==
    /\ pc = "Ended"
    /\ exit_path = "exhausted"
    /\ \E i \in DOMAIN board[1] :
          /\ \E j \in DOMAIN board[1][i].tasks : board[1][i].tasks[j].status = "todo"
          /\ \E blocker \in board[1][i].blocked_by, k \in DOMAIN board[1] :
                /\ board[1][k].id = blocker
                /\ \E j \in DOMAIN board[1][k].tasks :
                      board[1][k].tasks[j].status = "failed"

\* C36: the loop's state after a tick does not depend on the result the
\* agent reported. At the reconcile step the tracking and the history log
\* become what the persisted status of the selected task alone decides (a
\* completion recorded and the tracking reset when it is no longer todo,
\* both kept when it is), whatever the success flag and the exit code; the
\* control state is left as it is and the result is dropped.
C36_ResultIgnored ==
    [][ReconcileStep =>
          /\ \A r \in AgentResults :
                last_result = Some(r) =>
                    /\ (tracking' = tracking) <=> (PersistedStatus = "todo")
                    /\ (completions' = completions) <=> (PersistedStatus = "todo")
                    /\ (history_file' = history_file) <=> (PersistedStatus = "todo")
          /\ PersistedStatus # "todo" =>
                /\ tracking' = <<None, None, 0, "ralph">>
                /\ completions' = Append(completions,
                        TaskCompletion(current_task_id[1], Now - current_task_start[1],
                                       current_task_iterations, PersistedStatus))
                /\ history_file' = Saved(completions', baseline_eta, baseline_remaining)
          /\ last_result' = None
          /\ <<max_file, pause_file, hint_file, hints_archive, state_file,
               max_iterations, current_iteration>>'
               = <<max_file, pause_file, hint_file, hints_archive, state_file,
                   max_iterations, current_iteration>>]_vars

\* C36's case: the agent reported a failure, the selected task is persisted
\* as done, and the tick is about to reconcile.
C36_Witness ==
    /\ pc = "Reconcile"
    /\ board_file.kind = "valid"
    /\ ~last_result[1].success
    /\ PersistedStatus = "done"

-----------------------------------------------------------------------------
(* SpecRaces: control-channel calls of separate processes, statement by    *)
(* statement. The command line and the dashboard each run one               *)
(* add_iterations; the loop runs consume_hint again and again while hints   *)
(* are set from outside.                                                    *)

\* The budget files the two add_iterations calls start on, and what they add.
StoredBudgets == {None, Some(Str(1)), Some(Str(3))}
AddAmounts == {1, 2}

not_races == <<board_file, board, pc, agent_available, state_file, pause_file,
               max_iterations, current_iteration, current_task_id,
               current_task_start, current_task_iterations,
               current_agent_level, completions, last_result, invocations,
               paused_invocations, left_todo, last_fault, exit_path,
               routing, prompt_hint, agent, history_file, baseline_eta,
               baseline_remaining, clock>>

\* A caller about to run add_iterations(additional); "before" keeps the
\* budget stored when the call was made.
AddIterationsCalled(additional, before) ==
    [op |-> "add_iterations", step |-> "called", additional |-> additional,
     before |-> before, current |-> 0]

\* "current = self.get_max_iterations(); if current is None: current = 0"
AddIterationsReads(caller) ==
    /\ in_flight[caller].op = "add_iterations"
    /\ in_flight[caller].step = "called"
    /\ in_flight' = [in_flight EXCEPT ![caller] =
          [@ EXCEPT !.step = "read",
                    !.current = IF GetMaxIterations = None THEN 0
                                ELSE GetMaxIterations[1]]]
    /\ UNCHANGED <<not_races, result, max_file, hint_file, hints_archive>>

\* "new_max = current + additional; self.set_max_iterations(new_max)"
AddIterationsWrites(caller) ==
    /\ in_flight[caller].op = "add_iterations"
    /\ in_flight[caller].step = "read"
    /\ max_file' = Some(Str(in_flight[caller].current + in_flight[caller].additional))
    /\ in_flight' = [in_flight EXCEPT ![caller] = [@ EXCEPT !.step = "returned"]]
    /\ UNCHANGED <<not_races, result, hint_file, hints_archive>>

\* consume_hint's "hint = self.get_hint(); if hint is None: return None"
ConsumeHintReads ==
    /\ in_flight["loop"].op = "none" \/ in_flight["loop"].step = "returned"
    /\ in_flight' = [in_flight EXCEPT !["loop"] =
          [op |-> "consume_hint",
           step |-> IF GetHint = None THEN "returned" ELSE "read",
           hint |-> GetHint]]
    /\ UNCHANGED <<not_races, result, max_file, hint_file, hints_archive>>

\* consume_hint's "archive_path.write_text(hint)"
ConsumeHintArchives ==
    /\ in_flight["loop"].op = "consume_hint"
    /\ in_flight["loop"].step = "read"
    /\ hints_archive' = ArchiveWrite(hints_archive, Now, in_flight["loop"].hint[1])
    /\ in_flight' = [in_flight EXCEPT !["loop"] = [@ EXCEPT !.step = "archived"]]
    /\ UNCHANGED <<not_races, result, max_file, hint_file>>

\* consume_hint's "self.hint_file.unlink(); return hint"
ConsumeHintUnlinks ==
    /\ in_flight["loop"].op = "consume_hint"
    /\ in_flight["loop"].step = "archived"
    /\ hint_file' = None
    /\ in_flight' = [in_flight EXCEPT !["loop"] = [@ EXCEPT !.step = "returned"]]
    /\ UNCHANGED <<not_races, result, max_file, hints_archive>>

InitRaces ==
    /\ board_file = ValidFile(TemplateBoard)
    /\ KanbanFresh
    /\ RunnerFresh
    /\ pc = "Idle"
    /\ agent_available = TRUE
    /\ max_file \in StoredBudgets
    /\ pause_file = FALSE
    /\ state_file = None
    /\ routing = NoRouting
    /\ hint_file = None
    /\ hints_archive = [name \in {} |-> <<>>]
    /\ prompt_hint = None
    /\ clock = 0
    /\ \E a \in AddAmounts, b \in AddAmounts :
          in_flight = [caller \in Callers |->
                          IF caller = "cli" THEN AddIterationsCalled(a, GetMaxIterations)
                          ELSE IF caller = "dashboard"
                          THEN AddIterationsCalled(b, GetMaxIterations)
                          ELSE NoCall]
    /\ HistoryFresh
    /\ history_file = HistoryMissing

NextRaces ==
    \/ \E caller \in {"cli", "dashboard"} : AddIterationsReads(caller)
    \/ \E caller \in {"cli", "dashboard"} : AddIterationsWrites(caller)
    \/ ConsumeHintReads
    \/ ConsumeHintArchives
    \/ ConsumeHintUnlinks
    \/ \E hint \in HintTexts : SetHintCall(hint)

SpecRaces == InitRaces /\ [][NextRaces]_vars

-----------------------------------------------------------------------------
(* Claims about interleaved calls.                                         *)

\* C37: consume_hint never deletes a hint it did not return: the hint file
\* it unlinks holds the hint it read, so that every hint written is returned
\* by a consume_hint or was overwritten by a set_hint before it was read.
C37_NoHintLost ==
    [][(/\ in_flight["loop"].op = "consume_hint"
        /\ in_flight["loop"].step = "archived"
        /\ hint_file' = None
        /\ hint_file # None)
       => GetHint = in_flight["loop"].hint]_vars

\* C38: when the command line and the dashboard have each run
\* add_iterations, with a and b, on a stored budget n (0 when none is
\* stored), the stored budget is n + a + b.
C38_IncrementsNotLost ==
    (in_flight["cli"].step = "returned" /\ in_flight["dashboard"].step = "returned")
        => GetMaxIterations =
              Some((IF in_flight["cli"].before = None THEN 0
                    ELSE in_flight["cli"].before[1])
                   + in_flight["cli"].additional + in_flight["dashboard"].additional)

-----------------------------------------------------------------------------
(* Claims about the level over the ticks of a task.                        *)

\* C39: in a tick of a task that no routing rule matches, the level moves
\* along the escalation chain only forward: the level the agent is invoked
\* at is at the chain position of the level before the tick or at the next
\* one, and it is at the next one whenever should_escalate holds and the
\* last entry of the chain has not been reached.
C39_LevelMonotone ==
    [][(/\ PreparesInvocation
        /\ routing.kind = "config"
        /\ routing.escalation.enabled
        /\ routing.escalation.escalation_chain # <<>>
        /\ NoRuleMatches)
       => LET chain == routing.escalation.escalation_chain
              before == ChainIndex(chain, current_agent_level)
              after == ChainIndex(chain, current_agent_level')
          IN  /\ after >= before
              /\ after <= before + 1
              /\ (/\ ShouldEscalate(routing, current_task_iterations,
                                    2 * (Now - current_task_start[1]))
                  /\ before < Len(chain))
                 => after = before + 1]_vars

\* The first rule of the configuration that matches the task of the tick.
MatchingRule ==
    LET next_task == FindNextTask(board[1])
        Matches(i) == MatchesRule(routing.rules[i], next_task[2].id,
                                  next_task[2].type, Some(next_task[1].id))
    IN  routing.rules[CHOOSE i \in DOMAIN routing.rules :
                          Matches(i) /\ \A k \in 1..(i - 1) : ~Matches(k)]

\* C40: a matching routing rule overrides escalation. In a tick whose task a
\* routing rule matches, the level the agent is invoked at is that rule's
\* level, and the backend is the one built for it, whatever the attempt
\* count, the elapsed duration and the level escalate gave in the tick.
C40_RuleOverridesEscalation ==
    [][(PreparesInvocation /\ routing.kind = "config" /\ ~NoRuleMatches)
       => /\ current_agent_level' = MatchingRule.agent_level
          /\ agent' # None
          /\ agent'[1].backend
               = CreateAgentFromConfig(AgentsGet(routing, MatchingRule.agent_level)).backend]_vars

\* C40's case: the agent is about to be invoked at ralph, the level of the
\* rule that matches the task, in a tick where should_escalate held and
\* escalate gave eddie.
C40_Witness ==
    /\ pc = "Invoke"
    /\ routing.kind = "config"
    /\ ~NoRuleMatches
    /\ MatchingRule.agent_level = "ralph"
    /\ current_agent_level = "ralph"
    /\ ShouldEscalate(routing, current_task_iterations,
                      2 * (Now - current_task_start[1]))
    /\ Escalate(routing, "ralph") = Some("eddie")

=============================================================================
